---- MODULE Spec2Model ----
(***************************************************************************)
(* Rendering and interpolation engine of the relationship solar system:    *)
(* the easing and interpolation functions (app/utils/interpolation.py),    *)
(* the timeline video generator (app/services/video_generator.py) and the  *)
(* video endpoint that drives it (app/routers/generation.py).              *)
(*                                                                         *)
(* Python floats are IEEE-754 binary floating point numbers rounded to     *)
(* nearest, ties to even.  The model keeps that arithmetic and shortens    *)
(* the significand to MantissaBits bits: a float is an integer count of    *)
(* units of 2^-FracBits that has at most MantissaBits significant bits.    *)
(***************************************************************************)
EXTENDS Integers, Sequences, FiniteSets, TLC

VARIABLES
    ease_args,      \* SpecEase: the pair of arguments handed to ease_in_out
    ease_vals,      \* SpecEase: the values ease_in_out returned, in call order
    heap,           \* the dict objects of the process, by address
    hash_order,     \* the order in which this process iterates a set of str
    snapshot_a,     \* SpecInterp: address of the first argument
    snapshot_b,     \* SpecInterp: address of the second argument
    t_arg,          \* SpecInterp: the argument t
    returned,       \* SpecInterp: the states the calls returned, in call order
    snapshots,      \* the snapshot rows of the solar system, by created_at
    request,        \* request_data: fps, duration_per_snapshot, transition_frames
    ffmpeg_installed, \* whether an ffmpeg executable is on PATH
    caller,         \* who calls generate_video: the endpoint, or a direct caller
    pc,             \* where the request is
    plan,           \* generate_video's hold_frames and total_frames
    loop,           \* _render_all_frames' i, its inner loop counter and frame_index
    frames,         \* the frame files written to the temporary directory, in order
    tmpdir,         \* the temporary directory: "none", "exists" or "removed"
    output_file,    \* the file at output_path: "none", "partial" or "written"
    procs,          \* the processes started, in order
    error,          \* the exception generate_video raised
    response,       \* the endpoint's HTTP status, 0 while there is none
    process,        \* the encoder process: its returncode and what it wrote to stderr
    error_msg,      \* the parts of the message of the exception generate_video raised
    render_state,   \* SpecRender: the state dict handed to the renderers
    images,         \* SpecRender: what the renderer calls produced, in call order
    fonts_cache,    \* SpecFonts: _fonts_cache, the process-wide dict of loaded fonts
    threads,        \* SpecFonts: the executor threads inside _load_font
    db_people,      \* SpecApi: the rows of the people table, in insertion order
    db_snapshots,   \* SpecApi: the rows of the snapshots table, in insertion order
    db_tags,        \* SpecApi: the rows of the tags table, in insertion order
    db_theme,       \* SpecApi: the theme of the user's solar system
    ws_connections, \* SpecWs: ConnectionManager._connections, user_id to list address
    ws_lists,       \* SpecWs: the list objects of _connections, by address
    ws_sockets,     \* SpecWs: the sockets: where their handler is, whether the client is there
    ws_tasks,       \* SpecWs: the broadcast_to_user calls
    api_response    \* SpecApi: the last request and its answer

easeVars == <<ease_args, ease_vals>>
procVars == <<heap, hash_order>>
interpVars == <<snapshot_a, snapshot_b, t_arg, returned>>
videoVars ==
    <<snapshots, request, ffmpeg_installed, caller, pc, plan, loop, frames, tmpdir,
      output_file, procs, error, response, process, error_msg>>
renderVars == <<render_state, images>>
fontVars == <<fonts_cache, threads>>
apiVars == <<db_people, db_snapshots, db_tags, db_theme, api_response>>
wsVars == <<ws_connections, ws_lists, ws_sockets, ws_tasks>>
extVars == <<renderVars, fontVars, apiVars, wsVars>>
vars ==
    <<ease_args, ease_vals, heap, hash_order, snapshot_a, snapshot_b, t_arg, returned,
      snapshots, request, ffmpeg_installed, caller, pc, plan, loop, frames, tmpdir,
      output_file, procs, error, response, process, error_msg,
      render_state, images, fonts_cache, threads, db_people, db_snapshots, db_tags,
      db_theme, api_response, ws_connections, ws_lists, ws_sockets, ws_tasks>>

(***************************************************************************)
(* Bounds of the model.                                                    *)
(***************************************************************************)
MantissaBits == 6
FracBits == 7
MaxCalls == 2
MaxSnapshots == 3
MaxFps == 2
MaxHold == 3
MaxTransition == 2

(***************************************************************************)
(* Floating point arithmetic (Python float operators).                     *)
(***************************************************************************)
One == 2 ^ FracBits

Abs(n) == IF n < 0 THEN -n ELSE n

Max(x, y) == IF x >= y THEN x ELSE y

RECURSIVE BitLen(_)
BitLen(n) == IF n = 0 THEN 0 ELSE 1 + BitLen(n \div 2)

\* num / den (num >= 0, den > 0) rounded to the nearest integer, ties to even
RoundHalfEven(num, den) ==
    LET q == num \div den
        r == num % den
    IN  IF 2 * r < den THEN q
        ELSE IF 2 * r > den THEN q + 1
        ELSE q + (q % 2)

\* the float nearest to num / den units (den > 0)
FRound(num, den) ==
    LET m == Abs(num)
        e == Max(BitLen(m \div den) - MantissaBits, 0)
        r == RoundHalfEven(m, den * (2 ^ e)) * (2 ^ e)
    IN  IF num < 0 THEN -r ELSE r

IsFloat(n) == FRound(n, 1) = n

FromInt(i) == FRound(i * One, 1)
FAdd(x, y) == FRound(x + y, 1)
FSub(x, y) == FRound(x - y, 1)
FMul(x, y) == FRound(x * y, One)
\* int / int true division (y > 0)
FDiv(x, y) == FRound(x * One, y)

\* the floats of [0.0, 1.0] and of [-1.0, 1.0]
UnitFloats == {n \in 0..One : IsFloat(n)}
PositionFloats == {n \in (-One)..One : IsFloat(n)}

(***************************************************************************)
(* Python objects: a dict is a function from its keys, the heap holds the  *)
(* dicts by address and a list of dicts is a sequence of addresses.        *)
(***************************************************************************)
Range(s) == {s[k] : k \in DOMAIN s}

\* {**d, **o}
DictMerge(d, o) ==
    [k \in DOMAIN d \cup DOMAIN o |-> IF k \in DOMAIN o THEN o[k] ELSE d[k]]

\* d.get(key, default)
DictGet(d, key, default) == IF key \in DOMAIN d THEN d[key] ELSE default

\* heap[src].update(...) in place of a new dict: the dict at src is written
DictUpdateInPlace(h, src, overrides) ==
    Append([h EXCEPT ![src] = DictMerge(h[src], overrides)], DictMerge(h[src], overrides))

\* the dict display {**heap[src], k: v, ...}: a new dict, at address Len(heap) + 1
DictSpread(h, src, overrides) == Append(h, DictMerge(h[src], overrides))

\* iteration over the ids of a and then those of b, an id of both twice
ListIteration(S, order) == SelectSeq(order \o order, LAMBDA x : x \in S)

\* iteration over a set of str: the order the process's string hashing gives
SetIteration(S, order) == SelectSeq(order, LAMBDA x : x \in S)

\* the state with its person dicts in place of their addresses
Deref(h, addr) ==
    LET people == DictGet(h[addr], "people", <<>>)
    IN  DictMerge(h[addr], [people |-> [k \in DOMAIN people |-> h[people[k]]]])

\* a decoded full_state: its person dicts, then the state dict (the last address)
StoreState(h, st) ==
    LET addrs == [k \in DOMAIN st.people |-> Len(h) + k]
    IN  Append(h \o st.people, DictMerge(st, [people |-> addrs]))

(***************************************************************************)
(* The data the model draws its states from.                               *)
(***************************************************************************)
IdSeq == <<"p1", "p2">>
PersonIds == Range(IdSeq)
NameOf == [p1 |-> "Riya", p2 |-> "Aman"]
HashOrders ==
    {o \in [DOMAIN IdSeq -> PersonIds] : \A i, j \in DOMAIN IdSeq : o[i] = o[j] => i = j}

\* the float the decimal literal n/d denotes
Dec(n, d) == FRound(n * One, d)

Absent == <<>>
Points ==
    { <<Dec(-7, 10), Dec(1, 2)>>, <<Dec(9, 10), Dec(-7, 10)>>, <<Dec(1, 5), Dec(1, 5)>>,
      <<One, -One>> }
\* 0.0, the least float above it, 0.25, 0.5, 0.75, the greatest float below 1.0, 1.0
TValues ==
    {0, 1, One \div 4, One \div 2, 3 * (One \div 4), One - 2 ^ (FracBits - MantissaBits), One}

Person(pid, pt, tag) ==
    [id |-> pid, name |-> NameOf[pid], x_position |-> pt[1], y_position |-> pt[2],
     tag |-> tag]

\* the active people of a solar system: where[p] is p's position, or Absent
PeopleList(where, tag) ==
    LET present == SelectSeq(IdSeq, LAMBDA p : where[p] # Absent)
    IN  [k \in DOMAIN present |-> Person(present[k], where[present[k]], tag)]

(***************************************************************************)
(* app/services/snapshot_service.py: the full_state of a snapshot          *)
(***************************************************************************)
None == "None"

\* person.tag.name if person.tag else "Untagged"; a tag stands by its name
TagName(person) == IF person.tag = None THEN "Untagged" ELSE person.tag

\* for person in active_people:
\*     tags_summary[tag_name] = tags_summary.get(tag_name, 0) + 1
RECURSIVE CountTags(_, _)
CountTags(people_left, tags_summary) ==
    IF people_left = <<>> THEN tags_summary
    ELSE
        LET tag_name == TagName(Head(people_left))
        IN  CountTags(Tail(people_left),
                DictMerge(tags_summary,
                    [tg \in {tag_name} |-> DictGet(tags_summary, tag_name, 0) + 1]))

full_state(active_people, now) ==
    [user |-> [id |-> "u1", name |-> "Asha"],
     people |-> active_people,
     tags_summary |-> CountTags(active_people, <<>>),
     total_active_people |-> Len(active_people),
     snapshot_timestamp |-> now]

(***************************************************************************)
(* app/utils/interpolation.py                                              *)
(***************************************************************************)
\* lerp with its end points exchanged
lerp_from_end(start, end, t) == FAdd(end, FMul(FSub(start, end), t))

lerp(start, end, t) == FAdd(start, FMul(FSub(end, start), t))

\* ease_in_out without the easing
ease_linear(t) == t

ease_in_out(t) == FMul(FMul(t, t), FSub(FromInt(3), FMul(FromInt(2), t)))

\* {p["id"]: p for p in snapshot.get("people", [])}: the last dict of an id wins
PeopleById(h, snapshot) ==
    LET people == DictGet(h[snapshot], "people", <<>>)
    IN  [pid \in {h[people[k]].id : k \in DOMAIN people} |->
            people[CHOOSE k \in DOMAIN people :
                      /\ h[people[k]].id = pid
                      /\ \A j \in DOMAIN people : h[people[j]].id = pid => j <= k]]

\* the loop over all_ids; ids is what is left of the iteration
RECURSIVE interpolate_people(_, _, _, _, _, _)
interpolate_people(h, people_a, people_b, ids, eased_t, interpolated_people) ==
    IF ids = <<>> THEN [heap |-> h, people |-> interpolated_people]
    ELSE
        LET pid == Head(ids)
            h2 ==
                IF pid \in DOMAIN people_a /\ pid \in DOMAIN people_b THEN
                    LET pa == people_a[pid]
                        pb == people_b[pid]
                    IN  DictSpread(h, pb,
                            [x_position |-> lerp(h[pa].x_position, h[pb].x_position, eased_t),
                             y_position |-> lerp(h[pa].y_position, h[pb].y_position, eased_t),
                             alpha |-> One])
                ELSE IF pid \in DOMAIN people_a THEN
                    DictSpread(h, people_a[pid], [alpha |-> FSub(One, eased_t)])
                ELSE
                    DictSpread(h, people_b[pid], [alpha |-> eased_t])
        IN  interpolate_people(h2, people_a, people_b, Tail(ids), eased_t,
                               Append(interpolated_people, Len(h2)))

\* the returned dict spread from snapshot_a instead of snapshot_b
interpolated_state_of_a(h, a, b, interpolated_people) ==
    DictSpread(h, a, [people |-> interpolated_people])

\* the returned dict {**snapshot_b, "people": interpolated_people}
interpolated_state(h, a, b, interpolated_people) ==
    DictSpread(h, b, [people |-> interpolated_people])

\* the heap after the call and the address of the returned dict
interpolate_snapshots(h, a, b, t, order) ==
    LET eased_t == ease_in_out(t)
        people_a == PeopleById(h, a)
        people_b == PeopleById(h, b)
        all_ids == DOMAIN people_a \cup DOMAIN people_b
        r == interpolate_people(h, people_a, people_b, SetIteration(all_ids, order),
                                eased_t, <<>>)
        h3 == interpolated_state(r.heap, a, b, r.people)
    IN  [heap |-> h3, ret |-> Len(h3)]

(***************************************************************************)
(* SpecEase: ease_in_out applied to two arguments of [0, 1].               *)
(***************************************************************************)
EaseIdle == ease_args = <<0, 0>> /\ ease_vals = <<>>

InterpIdle == snapshot_a = 0 /\ snapshot_b = 0 /\ t_arg = 0 /\ returned = <<>>

ProcIdle == heap = <<>> /\ hash_order = IdSeq

VideoIdle ==
    /\ snapshots = <<>>
    /\ request = [fps |-> 0, duration_per_snapshot |-> 0, transition_frames |-> 0]
    /\ ffmpeg_installed = FALSE
    /\ caller = "nobody"
    /\ pc = "idle"
    /\ plan = [hold_frames |-> 0, total_frames |-> 0]
    /\ loop = [i |-> 0, j |-> 0, frame_index |-> 0]
    /\ frames = <<>>
    /\ tmpdir = "none"
    /\ output_file = "none"
    /\ procs = <<>>
    /\ error = "none"
    /\ response = 0
    /\ process = [exited |-> FALSE, returncode |-> 0, stderr |-> ""]
    /\ error_msg = <<>>

RenderIdle == render_state = <<>> /\ images = <<>>

FontsIdle == fonts_cache = <<>> /\ threads = <<>>

ApiIdle ==
    /\ db_people = <<>> /\ db_snapshots = <<>> /\ db_tags = <<>> /\ db_theme = <<>>
    /\ api_response = <<>>

WsIdle ==
    ws_connections = <<>> /\ ws_lists = <<>> /\ ws_sockets = <<>> /\ ws_tasks = <<>>

ExtIdle == RenderIdle /\ FontsIdle /\ ApiIdle /\ WsIdle

InitEase ==
    /\ ease_args \in UnitFloats \X UnitFloats
    /\ ease_vals = <<>>
    /\ ProcIdle
    /\ InterpIdle
    /\ VideoIdle
    /\ ExtIdle

CallEase ==
    /\ Len(ease_vals) < 2
    /\ ease_vals' = Append(ease_vals, ease_in_out(ease_args[Len(ease_vals) + 1]))
    /\ UNCHANGED <<ease_args, procVars, interpVars, videoVars, extVars>>

NextEase == CallEase

SpecEase == InitEase /\ [][NextEase]_vars

\* C6: ease_in_out(0) = 0, ease_in_out(1) = 1 and ease_in_out is monotonically
\* non-decreasing on [0, 1]
C6_EaseEndpointsAndMonotone ==
    /\ \A k \in DOMAIN ease_vals :
          /\ ease_args[k] = 0 => ease_vals[k] = 0
          /\ ease_args[k] = One => ease_vals[k] = One
    /\ (Len(ease_vals) = 2 /\ ease_args[1] <= ease_args[2])
          => ease_vals[1] <= ease_vals[2]

(***************************************************************************)
(* SpecInterp: interpolate_snapshots called on two stored states, by one   *)
(* process and, after a restart, by the next one.                          *)
(***************************************************************************)
InitInterp ==
    /\ \E wa, wb \in [PersonIds -> Points \cup {Absent}] :
          LET h1 == StoreState(<<>>, full_state(PeopleList(wa, "Friend"), 1))
              h2 == StoreState(h1, full_state(PeopleList(wb, "Family"), 2))
          IN  /\ heap = h2
              /\ snapshot_a = Len(h1)
              /\ snapshot_b = Len(h2)
    /\ t_arg \in TValues
    /\ hash_order \in HashOrders
    /\ returned = <<>>
    /\ EaseIdle
    /\ VideoIdle
    /\ ExtIdle

\* one call; the caller keeps the returned state, the dicts of the call are dropped
CallInterpolate ==
    /\ Len(returned) < MaxCalls
    /\ snapshot_a \in DOMAIN heap /\ snapshot_b \in DOMAIN heap
    /\ LET r == interpolate_snapshots(heap, snapshot_a, snapshot_b, t_arg, hash_order)
       IN  /\ returned' = Append(returned, Deref(r.heap, r.ret))
           /\ heap' = SubSeq(r.heap, 1, Len(heap))
    /\ UNCHANGED <<hash_order, snapshot_a, snapshot_b, t_arg, easeVars, videoVars, extVars>>

\* a new worker process: str hashes are salted anew (PYTHONHASHSEED)
RestartProcess ==
    /\ Len(returned) \in 1..(MaxCalls - 1)
    /\ hash_order' \in HashOrders \ {hash_order}
    /\ UNCHANGED <<heap, interpVars, easeVars, videoVars, extVars>>

NextInterp == CallInterpolate \/ RestartProcess

SpecInterp == InitInterp /\ [][NextInterp]_vars

(***************************************************************************)
(* The snapshot histories a solar system can have: the system_created      *)
(* snapshot of create_user, then one snapshot per change of its people.    *)
(***************************************************************************)
PointA == <<Dec(-7, 10), Dec(1, 2)>>
PointB == <<Dec(9, 10), Dec(-7, 10)>>
PointC == <<Dec(1, 5), Dec(1, 5)>>

Where(riya, aman) == [p \in PersonIds |-> IF p = "p1" THEN riya ELSE aman]

Change(where, summary) == [where |-> where, change_summary |-> summary]

Histories ==
    { << Change(Where(Absent, Absent), "Solar system created for Asha"),
         Change(Where(PointA, Absent), "Added Riya as Friend"),
         Change(Where(PointA, PointC), "Added Aman as Friend"),
         Change(Where(PointB, PointC), "Moved Riya closer"),
         Change(Where(PointB, Absent), "Removed Aman") >>,
      << Change(Where(Absent, Absent), "Solar system created for Asha"),
         Change(Where(PointA, Absent), "Added Riya as Friend"),
         Change(Where(PointB, Absent), "Moved Riya farther"),
         Change(Where(Absent, Absent), "Removed Riya"),
         Change(Where(Absent, PointC), "Added Aman as Friend") >>,
      << Change(Where(Absent, Absent), "Solar system created for Asha"),
         Change(Where(Absent, PointC), "Added Aman as Friend"),
         Change(Where(Absent, Absent), "Removed Aman"),
         Change(Where(PointB, Absent), "Added Riya as Friend"),
         Change(Where(PointB, PointA), "Added Aman as Friend") >> }

\* the rows of the snapshots table and the heap of their decoded full_state dicts
RECURSIVE LoadSnapshots(_, _, _)
LoadSnapshots(h, rows, changes) ==
    IF changes = <<>> THEN [heap |-> h, rows |-> rows]
    ELSE
        LET c == Head(changes)
            h2 == StoreState(h, full_state(PeopleList(c.where, "Friend"), Len(rows) + 1))
        IN  LoadSnapshots(h2,
                Append(rows, [full_state |-> Len(h2), change_summary |-> c.change_summary]),
                Tail(changes))

(***************************************************************************)
(* app/schemas/generation.py: the requests VideoGenerationRequest accepts  *)
(***************************************************************************)
DEFAULT_FPS == 30
DEFAULT_TRANSITION_FRAMES == 15
\* duration_per_snapshot is held in units of 1 / HoldDen seconds: binary fractions,
\* which a float holds exactly and multiplies by a small int exactly
HoldDen == 2 ^ 2
DefaultDuration == 2 * HoldDen

FpsValues == (-1..MaxFps) \cup {DEFAULT_FPS}
DurationValues == (-1..MaxHold) \cup {DefaultDuration}
TransitionValues == (-1..MaxTransition) \cup {DEFAULT_TRANSITION_FRAMES}

VideoGenerationRequest ==
    [fps : FpsValues, duration_per_snapshot : DurationValues,
     transition_frames : TransitionValues]

(***************************************************************************)
(* app/services/video_generator.py                                         *)
(***************************************************************************)
\* int(x) of the float num / den: truncation towards zero
IntOf(num, den) == IF num >= 0 THEN num \div den ELSE -((-num) \div den)

\* hold_frames = int(hold_seconds * fps)
HoldFrames(hold_seconds, fps) == IntOf(hold_seconds * fps, HoldDen)

TotalFrames(n, hold_frames, transition_frames) ==
    n * hold_frames + (n - 1) * transition_frames

\* if len(snapshots) < 2: raise ValueError
TooFewSnapshots(n) == n < 2

\* the endpoint's check with its bound off by one
EndpointRejectsBelowOne(snapshot_count) == snapshot_count < 1

\* if snapshot_count < 2: raise HTTPException(status_code=400, ...)
EndpointRejects(snapshot_count) == snapshot_count < 2

\* the decimal digits of n >= 0
RECURSIVE Digits(_)
Digits(n) == IF n < 10 THEN <<n>> ELSE Append(Digits(n \div 10), n % 10)

\* the format specification 06d: zeros on the left up to six characters, more
\* characters when the number has more digits
FrameNumberWidth == 6
ZeroPad(ds, width) ==
    [k \in 1..Max(width, Len(ds)) |->
        IF k <= Max(width, Len(ds)) - Len(ds) THEN 0
        ELSE ds[k - (Max(width, Len(ds)) - Len(ds))]]

\* the characters of the file name f"frame_{frame_index:06d}.png" after "frame_",
\* up to its dot, as their codes: "0" is 48, "." is 46
CodeOfZero == 48
CodeOfDot == 46
FrameName(frame_index) ==
    LET ds == ZeroPad(Digits(frame_index), FrameNumberWidth)
    IN  Append([k \in DOMAIN ds |-> CodeOfZero + ds[k]], CodeOfDot)

\* leaving the with statement: TemporaryDirectory.__exit__ removes the directory
\* and what is in it, whether or not an exception is passing through
ExitWithOnReturnOnly(raised) == IF raised THEN "exists" ELSE "removed"

ExitWith(raised) == "removed"

\* stderr.decode() if stderr else "Unknown error"
DecodeStderr(stderr) == IF stderr # "" THEN stderr ELSE "Unknown error"

\* the message f"FFmpeg failed with exit code {process.returncode}"
FFmpegFailedMessage(returncode, error_text) ==
    <<"FFmpeg failed with exit code ", ToString(returncode)>>

\* no encoder process has exited: there is no return code and no output yet
NoProcess == [exited |-> FALSE, returncode |-> 0, stderr |-> ""]
StderrTexts == {"", "Conversion failed!"}

\* the star field seeded with the user's name
StarSeedOfName(state) == DictGet(DictGet(state, "user", <<>>), "name", "default")

\* seed = state.get("user", {}).get("id", "default")
StarSeed(state) == DictGet(DictGet(state, "user", <<>>), "id", "default")

\* progress = frame_number / max(total_frames - 1, 1)
FrameProgress(frame_number, total_frames) == FDiv(frame_number, Max(total_frames - 1, 1))

\* what _render_frame draws that depends on its arguments: the people, the
\* caption, the progress bar and its operands and the seed it hands to _draw_stars
_render_frame(state, frame_number, total_frames, change_summary) ==
    [caption |-> IF change_summary \notin {None, ""} THEN change_summary ELSE None,
     seed |-> StarSeed(state),
     people |-> DictGet(state, "people", <<>>),
     progress |-> FrameProgress(frame_number, total_frames),
     frame_number |-> frame_number,
     total_frames |-> total_frames]

\* t of the transition frames that ends at 1.0 instead of starting at 0.0
TransitionTimeFromOne(t_step, transition_frames) == FDiv(t_step + 1, transition_frames)

\* t = t_step / transition_frames
TransitionTime(t_step, transition_frames) == FDiv(t_step, transition_frames)

\* the frame file frame.save writes
FrameFile(kind, i, t_step, image) ==
    [index |-> loop.frame_index, name |-> FrameName(loop.frame_index), kind |-> kind,
     snapshot |-> i, t_step |-> t_step, image |-> image]

\* the frame files in the temporary directory: they go with the directory
FrameFilesOnDisk == IF tmpdir = "exists" THEN frames ELSE <<>>

VideoLocals == <<snapshots, request, ffmpeg_installed, caller>>
encVars == <<process, error_msg>>

\* POST /api/solar-system/{user_id}/generate-video: get_solar_system_by_user
EndpointGetSolarSystem ==
    /\ pc = "ep_get_solar_system"
    /\ IF snapshots = <<>>
       THEN response' = 404 /\ pc' = "done"
       ELSE response' = response /\ pc' = "ep_probe"
    /\ UNCHANGED <<VideoLocals, encVars, plan, loop, frames, tmpdir, output_file, procs, error,
                   procVars, interpVars, easeVars, extVars>>

\* the endpoint without its check of ffmpeg
ProbeNeverFails(installed) == FALSE

\* subprocess.run(["ffmpeg", "-version"], check=True, ...) raises FileNotFoundError
\* when there is no ffmpeg executable
ProbeFails(installed) == ~installed

\* the endpoint's check of ffmpeg: 503 when the probe raises
EndpointProbeFFmpeg ==
    /\ pc = "ep_probe"
    /\ procs' = Append(procs, "ffmpeg -version")
    /\ IF ProbeFails(ffmpeg_installed)
       THEN response' = 503 /\ pc' = "done"
       ELSE response' = response /\ pc' = "ep_count"
    /\ UNCHANGED <<VideoLocals, encVars, plan, loop, frames, tmpdir, output_file, error,
                   procVars, interpVars, easeVars, extVars>>

\* the endpoint's snapshot count, and its call of generate_video
EndpointCountSnapshots ==
    /\ pc = "ep_count"
    /\ IF EndpointRejects(Len(snapshots))
       THEN response' = 400 /\ pc' = "done"
       ELSE response' = response /\ pc' = "gv_fetch"
    /\ UNCHANGED <<VideoLocals, encVars, plan, loop, frames, tmpdir, output_file, procs, error,
                   procVars, interpVars, easeVars, extVars>>

\* generate_video up to the with statement
GenerateVideoFetch ==
    /\ pc = "gv_fetch"
    /\ IF TooFewSnapshots(Len(snapshots))
       THEN /\ error' = "ValueError"
            /\ error_msg' = <<"Need at least 2 snapshots to generate a video">>
            /\ pc' = "gv_raised"
            /\ plan' = plan
       ELSE /\ error' = error
            /\ error_msg' = error_msg
            /\ pc' = "gv_tmpdir"
            /\ LET hold_frames == HoldFrames(request.duration_per_snapshot, request.fps)
               IN  plan' = [hold_frames |-> hold_frames,
                            total_frames |-> TotalFrames(Len(snapshots), hold_frames,
                                                         request.transition_frames)]
    /\ UNCHANGED <<VideoLocals, process, loop, frames, tmpdir, output_file, procs, response,
                   procVars, interpVars, easeVars, extVars>>

\* with tempfile.TemporaryDirectory() as tmpdir, and the start of _render_all_frames
EnterTemporaryDirectory ==
    /\ pc = "gv_tmpdir"
    /\ tmpdir' = "exists"
    /\ loop' = [i |-> 0, j |-> 0, frame_index |-> 0]
    /\ pc' = "gv_hold"
    /\ UNCHANGED <<VideoLocals, encVars, plan, frames, output_file, procs, error, response,
                   procVars, interpVars, easeVars, extVars>>

\* one pass of for _ in range(hold_frames)
RenderHoldFrame ==
    /\ pc = "gv_hold"
    /\ loop.j < plan.hold_frames
    /\ LET snapshot == snapshots[loop.i + 1]
           frame == _render_frame(Deref(heap, snapshot.full_state), loop.frame_index,
                                  plan.total_frames, snapshot.change_summary)
       IN  frames' = Append(frames, FrameFile("hold", loop.i, 0, frame))
    /\ loop' = [loop EXCEPT !.j = @ + 1, !.frame_index = @ + 1]
    /\ UNCHANGED <<VideoLocals, encVars, pc, plan, tmpdir, output_file, procs, error, response,
                   procVars, interpVars, easeVars, extVars>>

\* range(hold_frames) is exhausted: on to the transition, or the loops are over
EndHoldFrames ==
    /\ pc = "gv_hold"
    /\ loop.j >= plan.hold_frames
    /\ IF loop.i < Len(snapshots) - 1
       THEN pc' = "gv_transition" /\ loop' = [loop EXCEPT !.j = 0]
       ELSE pc' = "gv_encode" /\ loop' = loop
    /\ UNCHANGED <<VideoLocals, encVars, plan, frames, tmpdir, output_file, procs, error,
                   response, procVars, interpVars, easeVars, extVars>>

\* one pass of for t_step in range(transition_frames); the interpolated state is
\* dropped once its frame is saved
RenderTransitionFrame ==
    /\ pc = "gv_transition"
    /\ loop.j < request.transition_frames
    /\ LET state == snapshots[loop.i + 1].full_state
           next_state == snapshots[loop.i + 2].full_state
           t == TransitionTime(loop.j, request.transition_frames)
           r == interpolate_snapshots(heap, state, next_state, t, hash_order)
           frame == _render_frame(Deref(r.heap, r.ret), loop.frame_index,
                                  plan.total_frames, None)
       IN  /\ frames' = Append(frames, FrameFile("transition", loop.i, loop.j, frame))
           /\ heap' = SubSeq(r.heap, 1, Len(heap))
    /\ loop' = [loop EXCEPT !.j = @ + 1, !.frame_index = @ + 1]
    /\ UNCHANGED <<VideoLocals, encVars, pc, plan, tmpdir, output_file, procs, error, response,
                   hash_order, interpVars, easeVars, extVars>>

\* range(transition_frames) is exhausted: the next snapshot
EndTransitionFrames ==
    /\ pc = "gv_transition"
    /\ loop.j >= request.transition_frames
    /\ loop' = [loop EXCEPT !.i = @ + 1, !.j = 0]
    /\ pc' = "gv_hold"
    /\ UNCHANGED <<VideoLocals, encVars, plan, frames, tmpdir, output_file, procs, error,
                   response, procVars, interpVars, easeVars, extVars>>

\* an exception in _render_frame or frame.save (the disk is full, say) while a frame
\* is rendered: it leaves _render_all_frames and the with statement
RenderFails ==
    /\ \/ pc = "gv_hold" /\ loop.j < plan.hold_frames
       \/ pc = "gv_transition" /\ loop.j < request.transition_frames
    /\ error' = "OSError"
    /\ error_msg' = <<"No space left on device">>
    /\ tmpdir' = ExitWith(TRUE)
    /\ pc' = "gv_raised"
    /\ UNCHANGED <<VideoLocals, process, plan, loop, frames, output_file, procs,
                   response, procVars, interpVars, easeVars, extVars>>

\* asyncio.create_subprocess_exec(*ffmpeg_cmd): FileNotFoundError without ffmpeg,
\* which leaves the with statement
SpawnEncoder ==
    /\ pc = "gv_encode"
    /\ IF ffmpeg_installed
       THEN /\ procs' = Append(procs, "ffmpeg encode")
            /\ pc' = "gv_communicate"
            /\ UNCHANGED <<error, error_msg, tmpdir>>
       ELSE /\ error' = "FileNotFoundError"
            /\ error_msg' = <<"No such file or directory: 'ffmpeg'">>
            /\ tmpdir' = ExitWith(TRUE)
            /\ pc' = "gv_raised"
            /\ procs' = procs
    /\ UNCHANGED <<VideoLocals, process, plan, loop, frames, output_file, response,
                   procVars, interpVars, easeVars, extVars>>

\* ffmpeg can encode only a frame sequence that is not empty, at a positive rate
CanEncode == frames # <<>> /\ request.fps > 0

\* process.communicate() and the return code: RuntimeError, or the return.  ffmpeg
\* opens output_path (-y) before it encodes, so a run that fails may leave a file
EncoderExits ==
    /\ pc = "gv_communicate"
    /\ \E returncode \in {0, 1}, stderr \in StderrTexts :
          /\ returncode = 0 => CanEncode
          /\ process' = [exited |-> TRUE, returncode |-> returncode, stderr |-> stderr]
          /\ IF returncode # 0
             THEN /\ error' = "RuntimeError"
                  /\ error_msg' = FFmpegFailedMessage(returncode, DecodeStderr(stderr))
                  /\ output_file' \in {"none", "partial"}
                  /\ tmpdir' = ExitWith(TRUE)
                  /\ pc' = "gv_raised"
             ELSE /\ error' = error
                  /\ error_msg' = error_msg
                  /\ output_file' = "written"
                  /\ tmpdir' = ExitWith(FALSE)
                  /\ pc' = "gv_returned"
    /\ UNCHANGED <<VideoLocals, plan, loop, frames, procs, response,
                   procVars, interpVars, easeVars, extVars>>

\* generate_video has returned or raised: the endpoint answers, an exception it
\* does not handle becoming a 500
CallerResumes ==
    /\ pc \in {"gv_returned", "gv_raised"}
    /\ response' = IF caller # "endpoint" THEN response
                   ELSE IF pc = "gv_returned" THEN 200 ELSE 500
    /\ pc' = "done"
    /\ UNCHANGED <<VideoLocals, encVars, plan, loop, frames, tmpdir, output_file, procs, error,
                   procVars, interpVars, easeVars, extVars>>

InitVideo ==
    /\ \E n \in 0..MaxSnapshots : \E history \in Histories :
          LET db == LoadSnapshots(<<>>, <<>>, SubSeq(history, 1, n))
          IN  heap = db.heap /\ snapshots = db.rows
    /\ hash_order \in HashOrders
    /\ request \in VideoGenerationRequest
    /\ ffmpeg_installed \in BOOLEAN
    /\ caller \in {"endpoint", "direct"}
    /\ pc = IF caller = "endpoint" THEN "ep_get_solar_system" ELSE "gv_fetch"
    /\ plan = [hold_frames |-> 0, total_frames |-> 0]
    /\ loop = [i |-> 0, j |-> 0, frame_index |-> 0]
    /\ frames = <<>>
    /\ tmpdir = "none"
    /\ output_file = "none"
    /\ procs = <<>>
    /\ error = "none"
    /\ response = 0
    /\ process = NoProcess
    /\ error_msg = <<>>
    /\ EaseIdle
    /\ InterpIdle
    /\ ExtIdle

Next ==
    \/ EndpointGetSolarSystem
    \/ EndpointProbeFFmpeg
    \/ EndpointCountSnapshots
    \/ GenerateVideoFetch
    \/ EnterTemporaryDirectory
    \/ RenderHoldFrame
    \/ EndHoldFrames
    \/ RenderTransitionFrame
    \/ EndTransitionFrames
    \/ RenderFails
    \/ SpawnEncoder
    \/ EncoderExits
    \/ CallerResumes

Spec == InitVideo /\ [][Next]_vars

(***************************************************************************)
(* Claims about interpolate_snapshots (SpecInterp).                        *)
(***************************************************************************)
StateA == Deref(heap, snapshot_a)
StateB == Deref(heap, snapshot_b)
IdsOf(st) == {st.people[k].id : k \in DOMAIN st.people}

\* every person of st is in the result, at st's position and with alpha 1.0
KeepsPeopleOf(st, result) ==
    \A i \in DOMAIN st.people :
        /\ \E j \in DOMAIN result.people : result.people[j].id = st.people[i].id
        /\ \A j \in DOMAIN result.people :
              result.people[j].id = st.people[i].id =>
                  /\ result.people[j].x_position = st.people[i].x_position
                  /\ result.people[j].y_position = st.people[i].y_position
                  /\ result.people[j].alpha = One

\* every person of the result that st does not have has alpha 0.0
HidesPeopleNotIn(st, result) ==
    \A j \in DOMAIN result.people :
        result.people[j].id \notin IdsOf(st) => result.people[j].alpha = 0

\* C1: interpolate_snapshots(a, b, 0.0) has every person of a at a's position with
\* alpha 1.0, and every person present only in b with alpha 0.0
C1_AtZeroReproducesA ==
    t_arg = 0 =>
        \A k \in DOMAIN returned :
            KeepsPeopleOf(StateA, returned[k]) /\ HidesPeopleNotIn(StateA, returned[k])

\* a call with t = 0.0 on a person who moved between a and b and a person only b has
C1_Witness ==
    /\ t_arg = 0
    /\ Len(returned) >= 1
    /\ \E i \in DOMAIN StateA.people : \E j \in DOMAIN StateB.people :
          /\ StateA.people[i].id = StateB.people[j].id
          /\ StateA.people[i].x_position # StateB.people[j].x_position
    /\ IdsOf(StateB) \ IdsOf(StateA) # {}

\* C2: interpolate_snapshots(a, b, 1.0) has every person of b at b's position with
\* alpha 1.0, and every person present only in a with alpha 0.0
C2_AtOneReproducesB ==
    t_arg = One =>
        \A k \in DOMAIN returned :
            KeepsPeopleOf(StateB, returned[k]) /\ HidesPeopleNotIn(StateB, returned[k])

\* C4: the returned state has the user, tags_summary, total_active_people and
\* snapshot_timestamp of b, and the keys of b: only the people list differs
C4_OtherFieldsFromB ==
    \A k \in DOMAIN returned :
        /\ DOMAIN returned[k] = DOMAIN StateB
        /\ \A key \in DOMAIN StateB \ {"people"} : returned[k][key] = StateB[key]

\* a call on states that differ in tags_summary, total_active_people and timestamp
C4_Witness ==
    /\ Len(returned) >= 1
    /\ StateA.total_active_people # StateB.total_active_people
    /\ StateA.tags_summary # StateB.tags_summary
    /\ StateA.snapshot_timestamp # StateB.snapshot_timestamp
    /\ StateA.people # <<>>

\* C5: two calls with equal (a, b, t) return equal states, the order of the people
\* included, whatever the set iteration order of the process
C5_Deterministic ==
    \A i, j \in DOMAIN returned : returned[i] = returned[j]

\* the dict of person pid in a people list
PersonOf(st, pid) == st.people[CHOOSE k \in DOMAIN st.people : st.people[k].id = pid]

\* the dict with alpha set
WithAlpha(person, alpha) == DictMerge(person, [alpha |-> alpha])

\* t * t * (3 - 2 * t) in float arithmetic
Smoothstep(t) == FMul(FMul(t, t), FSub(FromInt(3), FMul(FromInt(2), t)))

\* what the claim gives for person pid at t: b's record moved and opaque, a's
\* record fading out, b's record fading in
Interpolated(pid, t) ==
    IF pid \in IdsOf(StateA) /\ pid \in IdsOf(StateB) THEN
        LET a == PersonOf(StateA, pid)
            b == PersonOf(StateB, pid)
        IN  DictMerge(b,
                [x_position |->
                    FAdd(a.x_position, FMul(FSub(b.x_position, a.x_position), Smoothstep(t))),
                 y_position |->
                    FAdd(a.y_position, FMul(FSub(b.y_position, a.y_position), Smoothstep(t))),
                 alpha |-> One])
    ELSE IF pid \in IdsOf(StateA)
    THEN WithAlpha(PersonOf(StateA, pid), FSub(One, Smoothstep(t)))
    ELSE WithAlpha(PersonOf(StateB, pid), Smoothstep(t))

\* C23: for every t of [0, 1] and every id of the union, with t' = t * t * (3 - 2t):
\* a person of both states is b's record with x = a.x + (b.x - a.x) * t', y
\* likewise and alpha 1.0; a person of a only is a's record with alpha 1 - t'; a
\* person of b only is b's record with alpha t'; every other attribute is copied
C23_PerPersonFormula ==
    \A k \in DOMAIN returned :
        \A pid \in IdsOf(StateA) \cup IdsOf(StateB) :
            /\ pid \in IdsOf(returned[k])
            /\ \A j \in DOMAIN returned[k].people :
                  returned[k].people[j].id = pid =>
                      returned[k].people[j] = Interpolated(pid, t_arg)

\* a call at 0.25 on a person who moved, a person of a only and attributes (the
\* tag) that differ between a and b
C23_Witness ==
    /\ t_arg = One \div 4
    /\ Len(returned) >= 1
    /\ IdsOf(StateA) \ IdsOf(StateB) # {}
    /\ \E i \in DOMAIN StateA.people : \E j \in DOMAIN StateB.people :
          /\ StateA.people[i].id = StateB.people[j].id
          /\ StateA.people[i].x_position # StateB.people[j].x_position
          /\ StateA.people[i].tag # StateB.people[j].tag

\* the inputs are valid: the ids of a state are unique and its positions are in
\* [-1, 1]
ValidState(st) ==
    /\ \A i, j \in DOMAIN st.people : st.people[i].id = st.people[j].id => i = j
    /\ \A i \in DOMAIN st.people :
          /\ st.people[i].x_position \in PositionFloats
          /\ st.people[i].y_position \in PositionFloats

\* C24: for valid inputs and t in [0, 1] the result has exactly one person per id
\* of the union, every alpha is in [0, 1] and every x and y is in [-1, 1]
C24_ResultWellFormed ==
    (ValidState(StateA) /\ ValidState(StateB) /\ t_arg \in UnitFloats) =>
        \A k \in DOMAIN returned :
            LET people == returned[k].people
            IN  /\ IdsOf(returned[k]) = IdsOf(StateA) \cup IdsOf(StateB)
                /\ \A i, j \in DOMAIN people : people[i].id = people[j].id => i = j
                /\ \A j \in DOMAIN people :
                      /\ 0 <= people[j].alpha /\ people[j].alpha <= One
                      /\ -One <= people[j].x_position /\ people[j].x_position <= One
                      /\ -One <= people[j].y_position /\ people[j].y_position <= One

\* a call at the greatest t below 1.0 on a person who leaves the corner (1, -1),
\* next to a person of b only
C24_Witness ==
    /\ t_arg = One - 2 ^ (FracBits - MantissaBits)
    /\ Len(returned) >= 1
    /\ IdsOf(StateB) \ IdsOf(StateA) # {}
    /\ \E i \in DOMAIN StateA.people : \E j \in DOMAIN StateB.people :
          /\ StateA.people[i].id = StateB.people[j].id
          /\ StateA.people[i].x_position = One
          /\ StateB.people[j].x_position < 0

(***************************************************************************)
(* SpecCalls: every call of interpolate_snapshots, those of SpecInterp and *)
(* those of the video generator.                                           *)
(***************************************************************************)
SpecCalls == (InitVideo \/ InitInterp) /\ [][Next \/ NextInterp]_vars

\* C3: interpolate_snapshots never modifies its inputs: after any call, and after
\* all frames of a video, every stored dict (snapshot and person, the absence of
\* an alpha key included) is what it was before
C3_InputsNeverModified ==
    [][\A addr \in DOMAIN heap : addr \in DOMAIN heap' /\ heap'[addr] = heap[addr]]_vars

\* a video whose frames are all rendered, with transition frames between two
\* snapshots that both have people
C3_Witness ==
    /\ pc = "done"
    /\ output_file = "written"
    /\ \E k \in DOMAIN frames :
          /\ frames[k].kind = "transition"
          /\ heap[snapshots[frames[k].snapshot + 1].full_state].people # <<>>
          /\ heap[snapshots[frames[k].snapshot + 2].full_state].people # <<>>

(***************************************************************************)
(* Claims about the video generator and its endpoint (Spec).               *)
(***************************************************************************)
\* round(x) of the float num / den: to the nearest integer, ties to even
PyRound(num, den) ==
    IF num >= 0 THEN RoundHalfEven(num, den) ELSE -RoundHalfEven(-num, den)

HoldFramesOf(i) ==
    Cardinality({k \in DOMAIN frames : frames[k].kind = "hold" /\ frames[k].snapshot = i})

\* C7: the number of hold frames emitted per snapshot is round(hold_seconds * fps),
\* the product rounded to the nearest integer, not truncated (stated for the
\* requests whose fps and hold_seconds are not negative)
C7_HoldFramesRounded ==
    (pc = "gv_encode" /\ request.fps >= 0 /\ request.duration_per_snapshot >= 0) =>
        \A i \in 0..(Len(snapshots) - 1) :
            HoldFramesOf(i) = PyRound(request.duration_per_snapshot * request.fps, HoldDen)

\* C8: for every request the schema accepts, zero and negative values included,
\* the number of frames rendered and written is
\* total_frames = N * hold_frames + (N - 1) * transition_frames; it is 210 for
\* 3 snapshots, fps 30, 2.0 s and 15 transition frames
C8_RenderedEqualsTotalFrames ==
    pc = "gv_encode" =>
        /\ plan.total_frames =
              TotalFrames(Len(snapshots), plan.hold_frames, request.transition_frames)
        /\ Len(frames) = plan.total_frames
        /\ (/\ Len(snapshots) = 3
            /\ request = [fps |-> 30, duration_per_snapshot |-> 2 * HoldDen,
                          transition_frames |-> 15])
              => Len(frames) = 210

\* C9: a frame carries a caption only if it is a hold frame of a snapshot with
\* index i > 0
C9_CaptionOnlyAfterFirstSnapshot ==
    \A k \in DOMAIN frames :
        frames[k].image.caption # None =>
            frames[k].kind = "hold" /\ frames[k].snapshot > 0

\* nothing of a video exists: no temporary directory, frame file or output file
NothingWritten == tmpdir = "none" /\ frames = <<>> /\ output_file = "none"

\* C10: with fewer than 2 snapshots the request fails with the insufficient-history
\* error (ValueError from generate_video, HTTP 400 from the endpoint) before any
\* temporary directory, frame file, encoder process or output file is created
C10_InsufficientHistoryFirst ==
    Len(snapshots) < 2 =>
        /\ NothingWritten
        /\ procs = <<>>
        /\ (pc = "done" /\ caller = "direct") => error = "ValueError"
        /\ (pc = "done" /\ caller = "endpoint" /\ snapshots # <<>>) => response = 400

\* C10 as amended: generate_video raises ValueError before anything is created; the
\* endpoint runs its ffmpeg -version probe first and answers 400 when the probe
\* succeeds and 503 when it fails, creating nothing but that probe process
C10_InsufficientHistoryAfterProbe ==
    Len(snapshots) < 2 =>
        /\ NothingWritten
        /\ "ffmpeg encode" \notin Range(procs)
        /\ (pc = "done" /\ caller = "direct") => (error = "ValueError" /\ procs = <<>>)
        /\ (pc = "done" /\ caller = "endpoint" /\ snapshots # <<>>) =>
              /\ procs = <<"ffmpeg -version">>
              /\ response = IF ffmpeg_installed THEN 400 ELSE 503
              /\ error = "none"

\* the endpoint has answered 400 for a solar system that has its first snapshot only
C10_Witness ==
    /\ pc = "done"
    /\ caller = "endpoint"
    /\ Len(snapshots) = 1
    /\ response = 400

(***************************************************************************)
(* Claims about the exit paths of generate_video (Spec).                   *)
(***************************************************************************)
GenerateVideoLeft == pc \in {"gv_returned", "gv_raised", "done"}

\* C11: on every exit path of generate_video that created the temporary directory
\* (success, an exception while a frame is rendered, the encoder executable
\* missing, the encoder exiting non-zero) the directory and the frame files in it
\* no longer exist when generate_video returns or raises
C11_TemporaryDirectoryReleased ==
    GenerateVideoLeft =>
        /\ tmpdir \in {"none", "removed"}
        /\ FrameFilesOnDisk = <<>>
        /\ (error \in {"OSError", "FileNotFoundError", "RuntimeError"}
               \/ pc = "gv_returned") => tmpdir = "removed"

\* generate_video has raised out of the rendering of a frame, after frames were written
C11_Witness ==
    /\ pc = "gv_raised"
    /\ error = "OSError"
    /\ frames # <<>>
    /\ tmpdir = "removed"

\* C12: when the encoder runs and exits non-zero, the error generate_video raises
\* contains the exit code and the text the encoder wrote to stderr
C12_ErrorCarriesCodeAndDiagnostics ==
    error = "RuntimeError" =>
        /\ ToString(process.returncode) \in Range(error_msg)
        /\ DecodeStderr(process.stderr) \in Range(error_msg)

\* C13: a missing encoder executable is reported as dependency unavailable (503
\* from the endpoint's probe, FileNotFoundError from generate_video), never as the
\* RuntimeError of an encoding failure, and the endpoint renders no frame then
C13_MissingEncoderDistinguished ==
    /\ error = "RuntimeError" => (ffmpeg_installed /\ process.exited /\ process.returncode # 0)
    /\ ~ffmpeg_installed =>
          /\ caller = "endpoint" => (frames = <<>> /\ tmpdir = "none" /\ error = "none")
          /\ (caller = "endpoint" /\ pc = "done" /\ snapshots # <<>>) => response = 503
          /\ (caller = "direct" /\ pc = "done" /\ error \notin {"ValueError", "OSError"})
                => error = "FileNotFoundError"

\* the endpoint has answered 503 for a solar system that has the snapshots for a video
C13_Witness ==
    /\ caller = "endpoint"
    /\ ~ffmpeg_installed
    /\ Len(snapshots) >= 2
    /\ pc = "done"
    /\ response = 503

\* C14: whenever generate_video ends in a failure, no file exists at output_path
C14_NoArtifactOnFailure ==
    (GenerateVideoLeft /\ error # "none") => output_file = "none"

\* s comes before t in lexicographic order
LexLess(s, t) ==
    \/ \E i \in DOMAIN s \cap DOMAIN t :
          /\ s[i] < t[i]
          /\ \A j \in 1..(i - 1) : s[j] = t[j]
    \/ Len(s) < Len(t) /\ \A j \in DOMAIN s : s[j] = t[j]

\* C18: the frame files of a video are numbered 0, 1, ..., total_frames - 1 in the
\* order they are rendered, each number once and without a gap, and their names
\* have one fixed width (six zero-padded digits), so that the lexicographic order
\* of the names is the order of the frames
C18_FrameNumbering ==
    /\ \A k \in DOMAIN frames :
          /\ frames[k].index = k - 1
          /\ Len(frames[k].name) = FrameNumberWidth + 1
          /\ \A j \in 1..(k - 1) : LexLess(frames[j].name, frames[k].name)
    /\ pc = "gv_encode" => Len(frames) = plan.total_frames

(***************************************************************************)
(* Claims about the frame sequence and the progress bar (Spec).            *)
(***************************************************************************)
\* the stored state of snapshot i, counted from 0
SnapshotState(i) == Deref(heap, snapshots[i + 1].full_state)

\* the people interpolate_snapshots returns between snapshot i and the next at t
PeopleBetween(i, t) ==
    LET r == interpolate_snapshots(heap, snapshots[i + 1].full_state,
                                   snapshots[i + 2].full_state, t, hash_order)
    IN  Deref(r.heap, r.ret).people

\* frame f comes before frame g: an earlier snapshot, or the same snapshot and f a
\* hold frame, or both transition frames and f an earlier step (a transitive
\* relation)
ComesBefore(f, g) ==
    \/ f.snapshot < g.snapshot
    \/ /\ f.snapshot = g.snapshot
       /\ \/ f.kind = "hold"
          \/ g.kind = "transition" /\ f.t_step < g.t_step

\* the steps of the transition frames that follow snapshot i
TransitionSteps(i) ==
    {frames[k].t_step : k \in {j \in DOMAIN frames :
                                  frames[j].kind = "transition" /\ frames[j].snapshot = i}}

\* frame f is a frame the claim allows: a hold frame that shows its snapshot
\* unchanged, or a frame interpolated between its snapshot and the next at
\* t = step / transition_frames, for a step of 0 .. transition_frames - 1 and t in
\* [0, 1)
WellRendered(f) ==
    /\ f.snapshot \in 0..(Len(snapshots) - 1)
    /\ f.kind = "hold" => f.image.people = SnapshotState(f.snapshot).people
    /\ f.kind = "transition" =>
          /\ f.snapshot < Len(snapshots) - 1
          /\ f.t_step \in 0..(request.transition_frames - 1)
          /\ LET t == FDiv(f.t_step, request.transition_frames)
             IN  /\ 0 <= t /\ t < One
                 /\ f.image.people = PeopleBetween(f.snapshot, t)

\* C25: the frames are emitted in snapshot order: the hold frames of snapshot i,
\* which render snapshot i unchanged, then if i < N - 1 the interpolated frames of
\* the steps 0 .. transition_frames - 1 in increasing order, one each, with
\* t = step / transition_frames in [0, 1) and never 1, then the hold frames of
\* snapshot i + 1.  Stated of every frame as it is emitted, after the frames
\* emitted before it, and of the whole sequence once the loops are over.
C25_FramesInSnapshotOrder ==
    /\ [][ frames' # frames =>
              /\ frames' = Append(frames, frames'[Len(frames')])
              /\ WellRendered(frames'[Len(frames')])
              /\ frames # <<>> => ComesBefore(frames[Len(frames)], frames'[Len(frames')]) ]_vars
    /\ [](pc = "gv_encode" =>
            /\ \A i \in 0..(Len(snapshots) - 2) :
                  TransitionSteps(i) = 0..(request.transition_frames - 1)
            /\ \A i \in 0..(Len(snapshots) - 1) :
                  HoldFramesOf(i) = Max(plan.hold_frames, 0))

\* all frames of a video of three snapshots are rendered, with hold frames and two
\* transition frames per pair, the second of which shows a person between its
\* positions in the two snapshots
C25_Witness ==
    /\ pc = "gv_encode"
    /\ Len(snapshots) = 3
    /\ request.transition_frames = 2
    /\ plan.hold_frames >= 1
    /\ \E k \in DOMAIN frames :
          /\ frames[k].kind = "transition"
          /\ frames[k].t_step = 1
          /\ \E j \in DOMAIN frames[k].image.people :
                LET person == frames[k].image.people[j]
                IN  \E a \in DOMAIN SnapshotState(frames[k].snapshot).people :
                    \E b \in DOMAIN SnapshotState(frames[k].snapshot + 1).people :
                        LET pa == SnapshotState(frames[k].snapshot).people[a]
                            pb == SnapshotState(frames[k].snapshot + 1).people[b]
                        IN  /\ pa.id = person.id /\ pb.id = person.id
                            /\ person.x_position # pa.x_position
                            /\ person.x_position # pb.x_position

\* C26: the progress frame_index / (total_frames - 1) of the progress bar is
\* computed without a division by zero and lies in [0, 1]; it is 0 for the first
\* frame, 1 for the last frame and never decreases from a frame to the next
C26_ProgressWithinBar ==
    /\ \A k \in DOMAIN frames :
          /\ Max(frames[k].image.total_frames - 1, 1) # 0
          /\ 0 <= frames[k].image.progress /\ frames[k].image.progress <= One
          /\ k = 1 => frames[k].image.progress = 0
          /\ k > 1 => frames[k - 1].image.progress <= frames[k].image.progress
    /\ (pc = "gv_encode" /\ frames # <<>>) => frames[Len(frames)].image.progress = One

(***************************************************************************)
(* app/services/image_generator.py: the star field and the people a render *)
(* draws.                                                                  *)
(***************************************************************************)
WIDTH == 1080
HEIGHT == 1080
CENTER == <<540, 540>>
SCALE == 450
SmallStarCount == 150
LargeStarCount == 20

\* random.Random(seed) for a str seed: the generator's first state is a hash of
\* the characters of seed (SHA-512 in CPython, the same in every process), and
\* every draw advances the state.  Here the state is that hash and the number of
\* draws made, and the n-th draw a mix of the two.
SeedStrings == {"u1", "u2", "default", "Asha", "Asha K"}
SeedToInt(seed) ==
    CASE seed = "u1" -> 4711
      [] seed = "u2" -> 1729
      [] seed = "default" -> 999
      [] seed = "Asha" -> 31
      [] OTHER -> 77
RngModulus == 65537
RngIncrement == 74
Draw(seed, n) ==
    ((SeedToInt(seed) + n) * (SeedToInt(seed) + n) + RngIncrement) % RngModulus

\* rng.randint(a, b) and rng.choice(seq), of the n-th draw
Randint(draw, a, b) == a + (draw % (b - a + 1))
Choice(draw, seq) == seq[(draw % Len(seq)) + 1]

Ellipse(x, y, r, fill) == [bbox |-> <<x - r, y - r, x + r, y + r>>, fill |-> fill]

\* pass k of for _ in range(150): x, y, r, brightness are drawn in this order
SmallStar(seed, k) ==
    LET x == Randint(Draw(seed, 4 * (k - 1) + 1), 0, WIDTH - 1)
        y == Randint(Draw(seed, 4 * (k - 1) + 2), 0, HEIGHT - 1)
        r == Choice(Draw(seed, 4 * (k - 1) + 3), <<1, 1, 1, 2>>)
        brightness == Randint(Draw(seed, 4 * (k - 1) + 4), 180, 255)
    IN  Ellipse(x, y, r, <<brightness, brightness, brightness, 255>>)

\* pass k of for _ in range(20): x, y, r are drawn in this order, after the draws
\* of the small stars
LargeStar(seed, k) ==
    LET x == Randint(Draw(seed, 4 * SmallStarCount + 3 * (k - 1) + 1), 0, WIDTH - 1)
        y == Randint(Draw(seed, 4 * SmallStarCount + 3 * (k - 1) + 2), 0, HEIGHT - 1)
        r == Choice(Draw(seed, 4 * SmallStarCount + 3 * (k - 1) + 3), <<2, 3>>)
    IN  Ellipse(x, y, r, <<255, 255, 255, 128>>)

\* the ellipses _draw_stars draws for each seed, computed once per seed
StarField ==
    [seed \in SeedStrings |->
        [k \in 1..(SmallStarCount + LargeStarCount) |->
            IF k <= SmallStarCount THEN SmallStar(seed, k)
            ELSE LargeStar(seed, k - SmallStarCount)]]

_draw_stars(seed) == StarField[seed]

\* CENTER[k] + int(position * SCALE): the product is taken exactly here, a float
\* product of this size being within one unit in the last place of it
Pixel(position, k) == CENTER[k] + IntOf(position * SCALE, One)

\* where _draw_connections, _draw_people_glow and _draw_people_solid put a person
DrawPeople(people_list) ==
    [k \in DOMAIN people_list |->
        [px |-> Pixel(people_list[k].x_position, 1),
         py |-> Pixel(people_list[k].y_position, 2),
         alpha |-> DictGet(people_list[k], "alpha", One),
         name |-> people_list[k].name]]

\* generate_solar_system_image: nothing in it raises on a position, and the PNG
\* is saved at output_path
generate_solar_system_image(state) ==
    [kind |-> "image",
     state |-> state,
     stars |-> _draw_stars(StarSeed(state)),
     people |-> DrawPeople(DictGet(state, "people", <<>>)),
     error |-> "none",
     produced |-> TRUE]

\* the image _render_frame returns, with its stars and people drawn
RenderedFrame(state) ==
    LET frame == _render_frame(state, 0, 1, None)
    IN  [kind |-> "frame",
         state |-> state,
         stars |-> _draw_stars(frame.seed),
         people |-> DrawPeople(DictGet(state, "people", <<>>)),
         error |-> "none",
         produced |-> TRUE]

(***************************************************************************)
(* SpecRender: the renderers called on states as they can reach them, a    *)
(* stored full_state being JSON that no validator has seen since it was    *)
(* written.                                                                *)
(***************************************************************************)
PointOutX == <<Dec(3, 2), Dec(1, 5)>>
PointOutY == <<Dec(1, 5), Dec(-2, 1)>>

RenderPeople ==
    { PeopleList(Where(Absent, Absent), "Friend"),
      PeopleList(Where(PointA, Absent), "Friend"),
      PeopleList(Where(PointOutX, Absent), "Friend"),
      PeopleList(Where(PointB, PointOutY), "Friend") }

RenderUsers ==
    { [id |-> "u1", name |-> "Asha"], [id |-> "u1", name |-> "Asha K"],
      [id |-> "u2", name |-> "Asha"], [name |-> "Asha"] }

\* the states with a user dict, and the states without the key
RenderStates ==
    {DictMerge(full_state(pl, 1), [user |-> u]) : pl \in RenderPeople, u \in RenderUsers}
        \cup
    {[people |-> pl, total_active_people |-> Len(pl)] : pl \in RenderPeople}

InitRender ==
    /\ render_state = <<>>
    /\ images = <<>>
    /\ EaseIdle /\ ProcIdle /\ InterpIdle /\ VideoIdle /\ FontsIdle /\ ApiIdle /\ WsIdle

CallGenerateImage ==
    /\ Len(images) < MaxCalls
    /\ \E state \in RenderStates :
          /\ render_state' = state
          /\ images' = Append(images, generate_solar_system_image(state))
    /\ UNCHANGED <<easeVars, procVars, interpVars, videoVars, fontVars, apiVars, wsVars>>

CallRenderFrame ==
    /\ Len(images) < MaxCalls
    /\ \E state \in RenderStates :
          /\ render_state' = state
          /\ images' = Append(images, RenderedFrame(state))
    /\ UNCHANGED <<easeVars, procVars, interpVars, videoVars, fontVars, apiVars, wsVars>>

NextRender == CallGenerateImage \/ CallRenderFrame

SpecRender == InitRender /\ [][NextRender]_vars

OutOfRange(v) == v < -One \/ v > One

HasPositionOutOfRange(state) ==
    \E k \in DOMAIN state.people :
        OutOfRange(state.people[k].x_position) \/ OutOfRange(state.people[k].y_position)

\* C15: when a state with a person whose x_position or y_position lies outside
\* [-1.0, 1.0] reaches generate_solar_system_image or _render_frame, rendering
\* ends in an error and no image or frame is produced
C15_OutOfRangeFailsLoudly ==
    \A i \in DOMAIN images :
        HasPositionOutOfRange(images[i].state) =>
            images[i].error # "none" /\ ~images[i].produced

HasUserId(state) == "user" \in DOMAIN state /\ "id" \in DOMAIN state.user

SameSeed(s, t) ==
    \/ HasUserId(s) /\ HasUserId(t) /\ s.user.id = t.user.id
    \/ ~HasUserId(s) /\ ~HasUserId(t)

MaxRequests == 3

OwnSystem == "ss1"
OtherSystem == "ss2"
ApiNameOf == [p1 |-> "Riya", p2 |-> "Aman", q1 |-> "Zoe"]

\* the name, color and icon (its code points) of the seeded tags
PREDEFINED_TAGS ==
    << [name |-> "Partner", color |-> "#FF6B6B", icon |-> "u2764 ufe0f"],
       [name |-> "Family", color |-> "#FFD93D", icon |-> "U0001f3e0"],
       [name |-> "Close Friend", color |-> "#4ECDC4", icon |-> "U0001f91d"],
       [name |-> "Friend", color |-> "#45B7D1", icon |-> "U0001f44b"],
       [name |-> "Colleague", color |-> "#96CEB4", icon |-> "U0001f4bc"],
       [name |-> "Mentor", color |-> "#DDA0DD", icon |-> "U0001f31f"],
       [name |-> "Acquaintance", color |-> "#95A5A6", icon |-> "U0001f464"] >>

\* a row of the tags table; solar_system_id is None for a predefined tag
TagRow(id, ss, name, color, icon, is_predefined) ==
    [id |-> id, solar_system_id |-> ss, name |-> name, color |-> color, icon |-> icon,
     is_predefined |-> is_predefined]

\* the tags table after seed_predefined_tags: a tag of PREDEFINED_TAGS is added
\* when no predefined row has its name; the k-th gets the id "t" k
seed_predefined_tags(tags) ==
    LET existing_names == {t.name : t \in {r \in Range(tags) : r.is_predefined}}
        missing == SelectSeq([k \in DOMAIN PREDEFINED_TAGS |->
                                 [k |-> k, tag_data |-> PREDEFINED_TAGS[k]]],
                             LAMBDA e : e.tag_data.name \notin existing_names)
    IN  tags \o [j \in DOMAIN missing |->
                    TagRow("t" \o ToString(missing[j].k), None, missing[j].tag_data.name,
                           missing[j].tag_data.color, missing[j].tag_data.icon, TRUE)]

\* the row db.get(Tag, tag_id) returns, in a sequence: empty when there is none
GetTag(tags, tag_id) == SelectSeq(tags, LAMBDA t : t.id = tag_id)

\* a row of the people table; removed_at is None or the time of the removal
PersonRow(pid, ss, pt, tag_id) ==
    [id |-> pid, solar_system_id |-> ss, name |-> ApiNameOf[pid],
     x_position |-> pt[1], y_position |-> pt[2], tag_id |-> tag_id, removed_at |-> None]

\* selectinload(Person.tag): the rows with person.tag, the tag row of tag_id in a
\* sequence, empty when tag_id is None
selectinload_tag(rows, tags) ==
    [k \in DOMAIN rows |->
        ("tag" :> (IF rows[k].tag_id = None THEN <<>> ELSE GetTag(tags, rows[k].tag_id)))
            @@ rows[k]]

\* the dict capture_snapshot and _build_state_dict make of a person; of the dict
\* of its tag the model keeps name and color, as tag and tag_color
PersonDict(p) ==
    [id |-> p.id, name |-> p.name, x_position |-> p.x_position,
     y_position |-> p.y_position,
     tag |-> IF p.tag = <<>> THEN None ELSE p.tag[1].name,
     tag_color |-> IF p.tag = <<>> THEN None ELSE p.tag[1].color]

\* ss.people: the rows of the solar system
SystemPeople(rows, ss) == SelectSeq(rows, LAMBDA p : p.solar_system_id = ss)

\* the people without the filter on removed_at
AllPeople(rows) == rows

\* [p for p in ss.people if p.removed_at is None]
ActivePeople(rows) == SelectSeq(rows, LAMBDA p : p.removed_at = None)

\* ss.user of the two solar systems
SystemUser == [ss1 |-> [id |-> "u1", name |-> "Asha"], ss2 |-> [id |-> "u2", name |-> "Omar"]]

\* capture_snapshot that adds a snapshot only when the people differ from those of
\* the last snapshot
capture_changed_snapshot(rows, tags, snaps, ss, change_type, change_summary) ==
    LET active_people == ActivePeople(SystemPeople(selectinload_tag(rows, tags), ss))
        dicts == [k \in DOMAIN active_people |-> PersonDict(active_people[k])]
        earlier == SelectSeq(snaps, LAMBDA s : s.solar_system_id = ss)
    IN  IF earlier # <<>> /\ earlier[Len(earlier)].full_state.people = dicts THEN snaps
        ELSE Append(snaps,
                [solar_system_id |-> ss,
                 full_state |-> [full_state(dicts, Len(snaps) + 1) EXCEPT !.user = SystemUser[ss]],
                 change_type |-> change_type,
                 change_summary |-> change_summary])

\* the snapshots table after capture_snapshot
capture_snapshot(rows, tags, snaps, ss, change_type, change_summary) ==
    LET active_people == ActivePeople(SystemPeople(selectinload_tag(rows, tags), ss))
        dicts == [k \in DOMAIN active_people |-> PersonDict(active_people[k])]
    IN  Append(snaps,
            [solar_system_id |-> ss,
             full_state |-> [full_state(dicts, Len(snaps) + 1) EXCEPT !.user = SystemUser[ss]],
             change_type |-> change_type,
             change_summary |-> change_summary])

\* predefined tags, then the custom tags of the solar system
MergedTags(tags, ss) ==
    SelectSeq(tags, LAMBDA t : t.is_predefined)
        \o SelectSeq(tags, LAMBDA t : t.solar_system_id = ss /\ ~t.is_predefined)

get_full_solar_system(rows, tags, ss) ==
    [user |-> SystemUser[ss],
     people |-> ActivePeople(SystemPeople(selectinload_tag(rows, tags), ss)),
     tags |-> MergedTags(tags, ss)]

_build_state_dict(solar_system_data, now) ==
    LET people_list ==
            [k \in DOMAIN solar_system_data.people |->
                PersonDict(solar_system_data.people[k])]
    IN  [user |-> solar_system_data.user,
         people |-> people_list,
         tags_summary |-> CountTags(people_list, <<>>),
         total_active_people |-> Len(people_list),
         snapshot_timestamp |-> now]

\* the row db.get(Person, person_id) returns, in a sequence: empty when there is none
GetPerson(rows, pid) == SelectSeq(rows, LAMBDA p : p.id = pid)

\* the ids of people_map: the listed people of the solar system that are not removed
PeopleMapIds(rows, ss, person_ids) ==
    {p.id : p \in {q \in Range(ActivePeople(SystemPeople(rows, ss))) : q.id \in person_ids}}

\* for item in bulk_data.updates: person.x_position = item.x_position, ...
RECURSIVE ApplyUpdates(_, _)
ApplyUpdates(rows, updates) ==
    IF updates = <<>> THEN rows
    ELSE
        LET item == Head(updates)
        IN  ApplyUpdates(
                [k \in DOMAIN rows |->
                    IF rows[k].id = item.person_id
                    THEN [rows[k] EXCEPT !.x_position = item.x_position,
                                         !.y_position = item.y_position]
                    ELSE rows[k]],
                Tail(updates))

\* the updates applied up to the first listed person that is not in people_map
RECURSIVE ApplyUntilMissing(_, _, _)
ApplyUntilMissing(rows, updates, ids) ==
    IF updates = <<>> \/ Head(updates).person_id \notin ids THEN rows
    ELSE ApplyUntilMissing(ApplyUpdates(rows, <<Head(updates)>>), Tail(updates), ids)

\* bulk_update_positions that validates each person as it updates it
bulk_update_unvalidated(rows, tags, snaps, ss, updates) ==
    LET ids == PeopleMapIds(rows, ss, {updates[k].person_id : k \in DOMAIN updates})
    IN  IF updates = <<>> THEN [status |-> 400, rows |-> rows, snaps |-> snaps]
        ELSE IF \E k \in DOMAIN updates : updates[k].person_id \notin ids
        THEN [status |-> 404, rows |-> ApplyUntilMissing(rows, updates, ids), snaps |-> snaps]
        ELSE
            LET updated == ApplyUpdates(rows, updates)
            IN  [status |-> 200, rows |-> updated,
                 snaps |-> capture_snapshot(updated, tags, snaps, ss, "bulk_update",
                              <<"Bulk updated ", ToString(Len(updates)), " people's positions">>)]

\* PATCH /api/solar-system/{user_id}/people/bulk: the answer and the tables after it
bulk_update_positions(rows, tags, snaps, ss, updates) ==
    LET ids == PeopleMapIds(rows, ss, {updates[k].person_id : k \in DOMAIN updates})
    IN  IF updates = <<>> THEN [status |-> 400, rows |-> rows, snaps |-> snaps]
        ELSE IF \E k \in DOMAIN updates : updates[k].person_id \notin ids
        THEN [status |-> 404, rows |-> rows, snaps |-> snaps]
        ELSE
            LET updated == ApplyUpdates(rows, updates)
            IN  [status |-> 200, rows |-> updated,
                 snaps |-> capture_snapshot(updated, tags, snaps, ss, "bulk_update",
                              <<"Bulk updated ", ToString(Len(updates)), " people's positions">>)]

\* math.sqrt(x) of a float x >= 0: the float nearest to the root, one of the two
\* floats next to it.  The root of a float is never half way between two floats.
math_sqrt(x) ==
    LET v == x * One
        r == CHOOSE n \in 0..(2 * One) : n * n <= v /\ (n + 1) * (n + 1) > v
        ulp == 2 ^ Max(BitLen(r) - MantissaBits, 0)
        lo == (r \div ulp) * ulp
        hi == IF lo * lo = v THEN lo ELSE lo + ulp
    IN  IF 4 * v < (lo + hi) * (lo + hi) THEN lo ELSE hi

\* person.distance_from_center, which every handler that writes a position sets to
\* math.sqrt(x_position**2 + y_position**2)
distance_from_center(p) ==
    math_sqrt(FAdd(FMul(p.x_position, p.x_position), FMul(p.y_position, p.y_position)))

\* update_person that does not look at removed_at
update_removed_person(rows, tags, snaps, ss, pid, update_data) ==
    LET found == GetPerson(rows, pid)
    IN  IF found = <<>> \/ found[1].solar_system_id # ss
        THEN [status |-> 404, rows |-> rows, snaps |-> snaps]
        ELSE
            LET updated == [found[1] EXCEPT
                               !.tag_id = IF "tag_id" \in update_data.given
                                          THEN update_data.tag_id ELSE @]
                new_rows == [k \in DOMAIN rows |->
                                IF rows[k].id = pid THEN updated ELSE rows[k]]
            IN  [status |-> 200, rows |-> new_rows,
                 snaps |-> capture_snapshot(new_rows, tags, snaps, ss, "person_moved",
                                            <<"Updated ", updated.name>>)]

\* PATCH /api/solar-system/{user_id}/people/{person_id}: the answer and the tables
\* after it.  update_data.given has the names of the fields that are not None.
update_person(rows, tags, snaps, ss, pid, update_data) ==
    LET found == GetPerson(rows, pid)
    IN  IF found = <<>> \/ found[1].solar_system_id # ss
        THEN [status |-> 404, rows |-> rows, snaps |-> snaps]
        ELSE IF found[1].removed_at # None
        THEN [status |-> 410, rows |-> rows, snaps |-> snaps]
        ELSE
            LET person == found[1]
                old_distance == distance_from_center(person)
                position_changed ==
                    "x_position" \in update_data.given \/ "y_position" \in update_data.given
                tag_changed == "tag_id" \in update_data.given
                updated ==
                    [person EXCEPT
                        !.x_position = IF "x_position" \in update_data.given
                                       THEN update_data.x_position ELSE @,
                        !.y_position = IF "y_position" \in update_data.given
                                       THEN update_data.y_position ELSE @,
                        !.tag_id = IF tag_changed THEN update_data.tag_id ELSE @]
                new_rows == [k \in DOMAIN rows |->
                                IF rows[k].id = pid THEN updated ELSE rows[k]]
                tag_name == TagName(PersonDict(selectinload_tag(<<updated>>, tags)[1]))
                direction == IF distance_from_center(updated) < old_distance
                             THEN "closer" ELSE "further"
                change_type == IF position_changed THEN "person_moved"
                               ELSE IF tag_changed THEN "person_tag_changed"
                               ELSE "person_moved"
                change_summary ==
                    IF position_changed THEN <<"Moved ", updated.name, " ", direction>>
                    ELSE IF tag_changed
                    THEN <<"Changed ", updated.name, "'s tag to ", tag_name>>
                    ELSE <<"Updated ", updated.name>>
            IN  [status |-> 200, rows |-> new_rows,
                 snaps |-> capture_snapshot(new_rows, tags, snaps, ss, change_type,
                                            change_summary)]

\* PATCH /api/solar-system/{user_id}/tags/{tag_id}: the answer and the tags table
\* after it.  tag_data.given has the names of the fields that are not None.
update_tag(tags, tag_id, tag_data) ==
    LET found == GetTag(tags, tag_id)
    IN  IF found = <<>> THEN [status |-> 404, tags |-> tags]
        ELSE IF found[1].is_predefined THEN [status |-> 403, tags |-> tags]
        ELSE
            LET tag == [found[1] EXCEPT
                           !.name = IF "name" \in tag_data.given THEN tag_data.name ELSE @,
                           !.color = IF "color" \in tag_data.given THEN tag_data.color ELSE @,
                           !.icon = IF "icon" \in tag_data.given THEN tag_data.icon ELSE @]
            IN  [status |-> 200,
                 tags |-> [k \in DOMAIN tags |-> IF tags[k].id = tag_id THEN tag ELSE tags[k]]]

\* delete_tag without the check of is_predefined
delete_any_tag(rows, tags, tag_id) ==
    LET found == GetTag(tags, tag_id)
    IN  IF found = <<>> THEN [status |-> 404, rows |-> rows, tags |-> tags]
        ELSE [status |-> 200,
              rows |-> [k \in DOMAIN rows |->
                           IF rows[k].tag_id = tag_id
                           THEN [rows[k] EXCEPT !.tag_id = None] ELSE rows[k]],
              tags |-> SelectSeq(tags, LAMBDA t : t.id # tag_id)]

\* DELETE /api/solar-system/{user_id}/tags/{tag_id}: the answer and the people and
\* tags tables after it
delete_tag(rows, tags, tag_id) ==
    LET found == GetTag(tags, tag_id)
    IN  IF found = <<>> THEN [status |-> 404, rows |-> rows, tags |-> tags]
        ELSE IF found[1].is_predefined THEN [status |-> 403, rows |-> rows, tags |-> tags]
        ELSE [status |-> 200,
              rows |-> [k \in DOMAIN rows |->
                           IF rows[k].tag_id = tag_id
                           THEN [rows[k] EXCEPT !.tag_id = None] ELSE rows[k]],
              tags |-> SelectSeq(tags, LAMBDA t : t.id # tag_id)]

(***************************************************************************)
(* SpecApi: requests of user u1 on its solar system, next to the solar     *)
(* system of another user, which has a person and a custom tag.            *)
(***************************************************************************)
\* the items of a bulk update: a person of the solar system, a person of another
\* one, an id that no row has
BulkItems ==
    { [person_id |-> "p1", x_position |-> PointB[1], y_position |-> PointB[2]],
      [person_id |-> "p1", x_position |-> PointC[1], y_position |-> PointC[2]],
      [person_id |-> "p2", x_position |-> PointB[1], y_position |-> PointB[2]],
      [person_id |-> "q1", x_position |-> PointB[1], y_position |-> PointB[2]],
      [person_id |-> "zz", x_position |-> PointB[1], y_position |-> PointB[2]] }

BulkPositionUpdate == {<<>>} \cup {<<i>> : i \in BulkItems} \cup (BulkItems \X BulkItems)

\* the bodies of update_person: nothing, a position, a tag (a custom one of the
\* solar system, the one of the other solar system), a position and a tag
PersonUpdate ==
    { [given |-> {}, x_position |-> 0, y_position |-> 0, tag_id |-> None],
      [given |-> {"x_position", "y_position"}, x_position |-> PointB[1],
       y_position |-> PointB[2], tag_id |-> None],
      [given |-> {"tag_id"}, x_position |-> 0, y_position |-> 0, tag_id |-> "c1"],
      [given |-> {"tag_id"}, x_position |-> 0, y_position |-> 0, tag_id |-> "c2"],
      [given |-> {"x_position", "tag_id"}, x_position |-> PointC[1], y_position |-> 0,
       tag_id |-> "c1"] }

\* the body of create_custom_tag
TagCreate == {[name |-> "Gym", color |-> "#112233", icon |-> None]}

\* the bodies of update_tag: a name, a color
TagUpdate ==
    { [given |-> {"name"}, name |-> "Crew", color |-> None, icon |-> None],
      [given |-> {"color"}, name |-> None, color |-> "#000000", icon |-> None] }

\* the tag ids of a request: a predefined tag, a custom tag of the solar system,
\* the custom tag of the other solar system, an id that no row has
TagIds == {"t4", "c1", "c2", "zz"}

Respond(op, args, status, built) ==
    [n |-> api_response.n + 1, op |-> op, args |-> args, status |-> status,
     built |-> built]

NotApi == <<easeVars, procVars, interpVars, videoVars, renderVars, fontVars, wsVars>>

\* the tables after startup and the other user's create_user, create_custom_tag
\* and add_person
OtherTags ==
    Append(seed_predefined_tags(<<>>),
           TagRow("c2", OtherSystem, "Band", "#AA00AA", None, FALSE))

OtherPeople == <<PersonRow("q1", OtherSystem, PointA, "c2")>>

OtherSnapshots ==
    capture_snapshot(OtherPeople, OtherTags,
        capture_snapshot(<<>>, OtherTags, <<>>, OtherSystem, "system_created",
                         <<"Solar system created for ", "Omar">>),
        OtherSystem, "person_added", <<"Added ", "Zoe", " as ", "Band">>)

\* the tables after this user's create_user, and after its first add_person
InitApi ==
    /\ db_tags = OtherTags
    /\ db_theme = None
    /\ \E first \in {<<>>, <<PersonRow("p1", OwnSystem, PointA, "t4")>>} :
          LET created == capture_snapshot(OtherPeople, OtherTags, OtherSnapshots, OwnSystem,
                             "system_created", <<"Solar system created for ", "Asha">>)
          IN  /\ db_people = OtherPeople \o first
              /\ db_snapshots =
                    IF first = <<>> THEN created
                    ELSE capture_snapshot(db_people, OtherTags, created, OwnSystem,
                             "person_added", <<"Added ", "Riya", " as ", "Friend">>)
              /\ api_response =
                    [n |-> 0, op |-> IF first = <<>> THEN "create_user" ELSE "add_person",
                     args |-> <<>>, status |-> 201, built |-> <<>>]
    /\ EaseIdle /\ ProcIdle /\ InterpIdle /\ VideoIdle /\ RenderIdle /\ FontsIdle /\ WsIdle

\* the application starts again: the lifespan handler runs seed_predefined_tags
Startup ==
    /\ api_response.n < MaxRequests
    /\ db_tags' = seed_predefined_tags(db_tags)
    /\ api_response' = Respond("startup", <<>>, 0, <<>>)
    /\ UNCHANGED <<db_people, db_snapshots, db_theme, NotApi>>

\* POST /api/solar-system/{user_id}/people/
AddPerson ==
    /\ api_response.n < MaxRequests
    /\ \E new \in {<<"p1", PointA, "t4">>, <<"p2", PointC, "t4">>,
                   <<"p2", PointC, None>>} :
          /\ GetPerson(db_people, new[1]) = <<>>
          /\ LET person == PersonRow(new[1], OwnSystem, new[2], new[3])
                 rows == Append(db_people, person)
                 tag_name == TagName(PersonDict(selectinload_tag(<<person>>, db_tags)[1]))
             IN  /\ db_people' = rows
                 /\ db_snapshots' =
                       capture_snapshot(rows, db_tags, db_snapshots, OwnSystem,
                           "person_added", <<"Added ", person.name, " as ", tag_name>>)
                 /\ api_response' = Respond("add_person", <<new[1]>>, 201, <<>>)
    /\ UNCHANGED <<db_tags, db_theme, NotApi>>

\* PATCH /api/solar-system/{user_id}/people/{person_id}; the tag of tag_id exists
\* (tag_id is a foreign key)
UpdatePerson ==
    /\ api_response.n < MaxRequests
    /\ \E pid \in {"p1", "p2", "q1"}, update_data \in PersonUpdate :
          /\ "tag_id" \in update_data.given => GetTag(db_tags, update_data.tag_id) # <<>>
          /\ LET r == update_person(db_people, db_tags, db_snapshots, OwnSystem, pid,
                                    update_data)
             IN  /\ db_people' = r.rows
                 /\ db_snapshots' = r.snaps
                 /\ api_response' =
                       Respond("update_person", <<pid, update_data>>, r.status, <<>>)
    /\ UNCHANGED <<db_tags, db_theme, NotApi>>

\* DELETE /api/solar-system/{user_id}/people/{person_id}
RemovePerson ==
    /\ api_response.n < MaxRequests
    /\ \E pid \in {"p1", "p2"} :
          LET found == GetPerson(db_people, pid)
          IN  IF found = <<>> \/ found[1].solar_system_id # OwnSystem
              THEN /\ api_response' = Respond("remove_person", <<pid>>, 404, <<>>)
                   /\ UNCHANGED <<db_people, db_snapshots>>
              ELSE IF found[1].removed_at # None
              THEN /\ api_response' = Respond("remove_person", <<pid>>, 410, <<>>)
                   /\ UNCHANGED <<db_people, db_snapshots>>
              ELSE
                  LET rows == [k \in DOMAIN db_people |->
                                  IF db_people[k].id = pid
                                  THEN [db_people[k] EXCEPT
                                           !.removed_at = ToString(Len(db_snapshots) + 1)]
                                  ELSE db_people[k]]
                  IN  /\ db_people' = rows
                      /\ db_snapshots' =
                            capture_snapshot(rows, db_tags, db_snapshots, OwnSystem,
                                "person_removed", <<"Removed ", found[1].name>>)
                      /\ api_response' = Respond("remove_person", <<pid>>, 200, <<>>)
    /\ UNCHANGED <<db_tags, db_theme, NotApi>>

\* PATCH /api/solar-system/{user_id}/people/bulk
BulkUpdatePositions ==
    /\ api_response.n < MaxRequests
    /\ \E updates \in BulkPositionUpdate :
          LET r == bulk_update_positions(db_people, db_tags, db_snapshots, OwnSystem,
                                         updates)
          IN  /\ db_people' = r.rows
              /\ db_snapshots' = r.snaps
              /\ api_response' = Respond("bulk_update_positions", updates, r.status, <<>>)
    /\ UNCHANGED <<db_tags, db_theme, NotApi>>

\* POST /api/solar-system/{user_id}/generate-image: the state dict it renders
GenerateImage ==
    /\ api_response.n < MaxRequests
    /\ LET state_dict ==
              _build_state_dict(get_full_solar_system(db_people, db_tags, OwnSystem),
                                Len(db_snapshots) + 1)
       IN  api_response' = Respond("generate_image", <<>>, 200, <<state_dict>>)
    /\ UNCHANGED <<db_people, db_snapshots, db_tags, db_theme>>
    /\ UNCHANGED NotApi

\* POST /api/solar-system/{user_id}/tags: the new tag gets the id c1
CreateCustomTag ==
    /\ api_response.n < MaxRequests
    /\ GetTag(db_tags, "c1") = <<>>
    /\ \E tag_data \in TagCreate :
          /\ db_tags' = Append(db_tags, TagRow("c1", OwnSystem, tag_data.name,
                                               tag_data.color, tag_data.icon, FALSE))
          /\ api_response' = Respond("create_custom_tag", <<"c1">>, 201, <<>>)
    /\ UNCHANGED <<db_people, db_snapshots, db_theme, NotApi>>

\* PATCH /api/solar-system/{user_id}/tags/{tag_id}
UpdateTag ==
    /\ api_response.n < MaxRequests
    /\ \E tag_id \in TagIds, tag_data \in TagUpdate :
          LET r == update_tag(db_tags, tag_id, tag_data)
          IN  /\ db_tags' = r.tags
              /\ api_response' = Respond("update_tag", <<tag_id, tag_data>>, r.status, <<>>)
    /\ UNCHANGED <<db_people, db_snapshots, db_theme, NotApi>>

\* DELETE /api/solar-system/{user_id}/tags/{tag_id}
DeleteTag ==
    /\ api_response.n < MaxRequests
    /\ \E tag_id \in TagIds :
          LET r == delete_tag(db_people, db_tags, tag_id)
          IN  /\ db_people' = r.rows
              /\ db_tags' = r.tags
              /\ api_response' = Respond("delete_tag", <<tag_id>>, r.status, <<>>)
    /\ UNCHANGED <<db_snapshots, db_theme, NotApi>>

\* PATCH /api/solar-system/{user_id}/theme
UpdateTheme ==
    /\ api_response.n < MaxRequests
    /\ \E theme \in {"dark"} :
          /\ db_theme' = theme
          /\ api_response' = Respond("update_theme", <<theme>>, 200, <<>>)
    /\ UNCHANGED <<db_people, db_snapshots, db_tags, NotApi>>

NextApi ==
    \/ AddPerson
    \/ UpdatePerson
    \/ RemovePerson
    \/ BulkUpdatePositions
    \/ GenerateImage
    \/ CreateCustomTag
    \/ UpdateTag
    \/ DeleteTag
    \/ UpdateTheme
    \/ Startup

SpecApi == InitApi /\ [][NextApi]_vars

(***************************************************************************)
(* Claims about the states built for rendering and about the bulk update   *)
(* (SpecApi).                                                              *)
(***************************************************************************)
RECURSIVE SumOver(_, _)
SumOver(f, keys) ==
    IF keys = {} THEN 0
    ELSE LET key == CHOOSE x \in keys : TRUE
         IN  f[key] + SumOver(f, keys \ {key})

\* the ids of the rows of the solar system with removed_at unset
ActiveIds == {p.id : p \in {q \in Range(db_people) :
                                q.solar_system_id = OwnSystem /\ q.removed_at = None}}

WellCounted(st) ==
    /\ \A tg \in DOMAIN st.tags_summary : st.tags_summary[tg] >= 1
    /\ SumOver(st.tags_summary, DOMAIN st.tags_summary) = st.total_active_people
    /\ st.total_active_people = Len(st.people)

ListsExactlyActive(st) ==
    /\ {st.people[k].id : k \in DOMAIN st.people} = ActiveIds
    /\ Len(st.people) = Cardinality(ActiveIds)

Listed(pid) ==
    \E k \in DOMAIN db_people :
        /\ db_people[k].id = pid
        /\ db_people[k].solar_system_id = OwnSystem
        /\ db_people[k].removed_at = None

\* the step is a bulk update answered with status
BulkAnswered(status) ==
    /\ api_response'.n # api_response.n
    /\ api_response'.op = "bulk_update_positions"
    /\ api_response'.status = status

NothingChanged == db_people' = db_people /\ db_snapshots' = db_snapshots

\* every listed person is where its last item puts it, nothing else has changed,
\* and one snapshot of change_type bulk_update has been added
AllUpdatedOnce(updates) ==
    /\ Len(db_people') = Len(db_people)
    /\ \A k \in DOMAIN db_people :
          LET items == SelectSeq(updates, LAMBDA i : i.person_id = db_people[k].id)
          IN  IF items = <<>> THEN db_people'[k] = db_people[k]
              ELSE db_people'[k] =
                      [db_people[k] EXCEPT !.x_position = items[Len(items)].x_position,
                                           !.y_position = items[Len(items)].y_position]
    /\ Len(db_snapshots') = Len(db_snapshots) + 1
    /\ SubSeq(db_snapshots', 1, Len(db_snapshots)) = db_snapshots
    /\ db_snapshots'[Len(db_snapshots')].change_type = "bulk_update"

\* C20: bulk_update_positions is all-or-nothing and creates a single snapshot: if
\* a listed person is missing, of another solar system or removed it fails with
\* 404, no position changes and no snapshot is created; otherwise every listed
\* person is updated and exactly one snapshot of change_type bulk_update is added
C20_BulkAllOrNothing ==
    [][ (api_response'.n # api_response.n /\ api_response'.op = "bulk_update_positions")
          => IF \E k \in DOMAIN api_response'.args : ~Listed(api_response'.args[k].person_id)
             THEN BulkAnswered(404) /\ NothingChanged
             ELSE BulkAnswered(200) /\ AllUpdatedOnce(api_response'.args) ]_vars

\* C20 as amended: an empty list of updates fails with 400 and changes nothing;
\* for a list that is not empty the call is as stated
C20_BulkAllOrNothingUnlessEmpty ==
    [][ (api_response'.n # api_response.n /\ api_response'.op = "bulk_update_positions")
          => IF api_response'.args = <<>>
             THEN BulkAnswered(400) /\ NothingChanged
             ELSE IF \E k \in DOMAIN api_response'.args :
                        ~Listed(api_response'.args[k].person_id)
             THEN BulkAnswered(404) /\ NothingChanged
             ELSE BulkAnswered(200) /\ AllUpdatedOnce(api_response'.args) ]_vars

\* a bulk update answered 404 whose first item lists an active person and whose
\* second item lists a removed one
C20_Witness ==
    /\ api_response.op = "bulk_update_positions"
    /\ api_response.status = 404
    /\ Len(api_response.args) = 2
    /\ Listed(api_response.args[1].person_id)
    /\ \E k \in DOMAIN db_people :
          /\ db_people[k].id = api_response.args[1].person_id
          /\ db_people[k].x_position # api_response.args[1].x_position
    /\ \E k \in DOMAIN db_people :
          /\ db_people[k].id = api_response.args[2].person_id
          /\ db_people[k].removed_at # None

(***************************************************************************)
(* Claims about the people, the tags and the snapshots (SpecApi).          *)
(***************************************************************************)
\* the step is a request with this operation
Requested(op) == api_response'.n # api_response.n /\ api_response'.op = op

\* the ids a people list has
ListedIds(people_list) == {people_list[k].id : k \in DOMAIN people_list}

\* the snapshots the step has added
NewSnapshots == {k \in DOMAIN db_snapshots' : k > Len(db_snapshots)}

\* the step is a request on the person: an update_person or remove_person with
\* its id, or a bulk update that lists it; answered with status, or with
\* bulk_status when it is a bulk update
AnsweredOn(pid, status, bulk_status) ==
    /\ (Requested("update_person") \/ Requested("remove_person"))
          /\ api_response'.args[1] = pid => api_response'.status = status /\ NothingChanged
    /\ Requested("bulk_update_positions")
          /\ (\E k \in DOMAIN api_response'.args : api_response'.args[k].person_id = pid)
          => api_response'.status = bulk_status /\ NothingChanged

PredefinedTags(tags) ==
    {[name |-> t.name, color |-> t.color, icon |-> t.icon] :
        t \in {r \in Range(tags) : r.is_predefined}}

\* C22: predefined tags are immutable through the API: update_tag and delete_tag
\* on a predefined tag are answered 403 and leave the tags and every person's tag
\* link unchanged, and the predefined tags (name, color, icon) are always the
\* seeded ones, one row each
C22_PredefinedTagsImmutable ==
    /\ [](/\ PredefinedTags(db_tags) = Range(PREDEFINED_TAGS)
          /\ Len(SelectSeq(db_tags, LAMBDA t : t.is_predefined)) = Len(PREDEFINED_TAGS))
    /\ [][ (Requested("update_tag") \/ Requested("delete_tag"))
              /\ (\E k \in DOMAIN db_tags :
                     db_tags[k].id = api_response'.args[1] /\ db_tags[k].is_predefined)
           => /\ api_response'.status = 403
              /\ db_tags' = db_tags
              /\ db_people' = db_people ]_vars

\* a delete_tag of the predefined tag Friend, which a person has, answered 403
C22_Witness ==
    /\ api_response.op = "delete_tag"
    /\ api_response.status = 403
    /\ \E k \in DOMAIN db_tags :
          /\ db_tags[k].id = api_response.args[1]
          /\ db_tags[k].is_predefined
          /\ \E j \in DOMAIN db_people : db_people[j].tag_id = db_tags[k].id

\* the snapshots of the user's solar system
OwnSnapshots(snaps) == SelectSeq(snaps, LAMBDA s : s.solar_system_id = OwnSystem)

\* the step is a successful add_person, update_person, bulk_update_positions or
\* remove_person
PeopleChangeSucceeded ==
    /\ api_response'.n # api_response.n
    /\ api_response'.op \in
          {"add_person", "update_person", "bulk_update_positions", "remove_person"}
    /\ api_response'.status \in {200, 201}

CurrentPeople(ss) ==
    LET active_people ==
            SelectSeq(db_people, LAMBDA p : p.solar_system_id = ss /\ p.removed_at = None)
    IN  [k \in DOMAIN active_people |->
            LET p == active_people[k]
                tag == SelectSeq(db_tags, LAMBDA t : p.tag_id # None /\ t.id = p.tag_id)
            IN  [id |-> p.id, name |-> p.name, x_position |-> p.x_position,
                 y_position |-> p.y_position,
                 tag |-> IF tag = <<>> THEN None ELSE tag[1].name,
                 tag_color |-> IF tag = <<>> THEN None ELSE tag[1].color]]

\* C28: after every completed request the most recent snapshot of the solar
\* system describes its current state: its people are exactly the people that are
\* not removed, with their current positions and their current tag (name and
\* color, or none)
C28_LatestSnapshotCurrent ==
    LET own == OwnSnapshots(db_snapshots)
    IN  own # <<>> /\ own[Len(own)].full_state.people = CurrentPeople(OwnSystem)

\* the rows of the other user's solar system
OfOtherSystem(rows) == SelectSeq(rows, LAMBDA r : r.solar_system_id = OtherSystem)

\* C29: custom tags are isolated per solar system: a request under a user updates
\* or deletes only custom tags of that user's solar system and unlinks tags only
\* from that user's people; no request under the user changes a tag, or a
\* person's tag link, of another user's solar system
C29_CustomTagsIsolated ==
    [][ /\ OfOtherSystem(db_tags') = OfOtherSystem(db_tags)
        /\ LET before == OfOtherSystem(db_people)
               after == OfOtherSystem(db_people')
           IN  [k \in DOMAIN after |-> <<after[k].id, after[k].tag_id>>]
                   = [k \in DOMAIN before |-> <<before[k].id, before[k].tag_id>>]
        /\ (Requested("update_tag") \/ Requested("delete_tag"))
              /\ api_response'.status = 200
           => \E k \in DOMAIN db_tags :
                  /\ db_tags[k].id = api_response'.args[1]
                  /\ db_tags[k].solar_system_id = OwnSystem ]_vars

(***************************************************************************)
(* SpecFonts: _load_font called by renders that run on the threads of the  *)
(* default executor (loop.run_in_executor(None, ...)).  A thread can be    *)
(* suspended between any two steps of _load_font.                          *)
(***************************************************************************)
MaxThreads == 2

ThreadIds == 1..MaxThreads

\* key = f"{name}_{size}" of two of the fonts _get_fonts loads
FontKeys == {"Inter-Bold.ttf_16", "Inter-Regular.ttf_12"}

IdleThread == [pc |-> "idle", key |-> "", font |-> <<>>, calls |-> 0, returned |-> <<>>]

NotFonts == <<easeVars, procVars, interpVars, videoVars, renderVars, apiVars, wsVars>>

InitFonts ==
    /\ fonts_cache = <<>>
    /\ threads = [th \in ThreadIds |-> IdleThread]
    /\ EaseIdle /\ ProcIdle /\ InterpIdle /\ VideoIdle /\ RenderIdle /\ ApiIdle /\ WsIdle

\* a render on thread th calls _load_font(name, size)
LoadFontCall(th) ==
    /\ threads[th].pc = "idle"
    /\ threads[th].calls < MaxCalls
    /\ \E key \in FontKeys :
          threads' = [threads EXCEPT ![th].pc = "check", ![th].key = key,
                                     ![th].calls = @ + 1]
    /\ UNCHANGED <<fonts_cache, NotFonts>>

\* if key in _fonts_cache: return _fonts_cache[key]
LoadFontCheck(th) ==
    /\ threads[th].pc = "check"
    /\ IF threads[th].key \in DOMAIN fonts_cache
       THEN threads' = [threads EXCEPT ![th].pc = "idle",
                                       ![th].returned = fonts_cache[threads[th].key]]
       ELSE threads' = [threads EXCEPT ![th].pc = "load"]
    /\ UNCHANGED <<fonts_cache, NotFonts>>

\* ImageFont.truetype(str(font_path), size), or ImageFont.load_default() when the
\* file cannot be read: a new font object either way
LoadFontRead(th) ==
    /\ threads[th].pc = "load"
    /\ \E kind \in {"truetype", "default"} :
          threads' = [threads EXCEPT
                         ![th].pc = "store",
                         ![th].font = [kind |-> kind, object |-> <<th, threads[th].calls>>]]
    /\ UNCHANGED <<fonts_cache, NotFonts>>

\* _fonts_cache[key] = font; return font
LoadFontStore(th) ==
    /\ threads[th].pc = "store"
    /\ fonts_cache' =
          DictMerge(fonts_cache, [k \in {threads[th].key} |-> threads[th].font])
    /\ threads' = [threads EXCEPT ![th].pc = "idle", ![th].returned = threads[th].font]
    /\ UNCHANGED NotFonts

NextFonts ==
    \E th \in ThreadIds :
        \/ LoadFontCall(th)
        \/ LoadFontCheck(th)
        \/ LoadFontRead(th)
        \/ LoadFontStore(th)

SpecFonts == InitFonts /\ [][NextFonts]_vars

\* C19: with several renders running concurrently on executor threads, an entry
\* of the font cache, once inserted for its key, is never replaced or changed by
\* a later or concurrent _load_font call
C19_CacheEntriesNeverReplaced ==
    [][ \A key \in DOMAIN fonts_cache :
            key \in DOMAIN fonts_cache' /\ fonts_cache'[key] = fonts_cache[key] ]_vars

(***************************************************************************)
(* SpecWs: app/services/ws_manager.py and app/routers/websocket.py on one  *)
(* event loop.  A coroutine runs without interruption between two awaits;  *)
(* at an await (websocket.accept, receive_text, send_text) any other       *)
(* coroutine can run.  A list is an object: the for loop of                *)
(* broadcast_to_user iterates the list object it found under the key, by   *)
(* an index into it.                                                       *)
(***************************************************************************)
MaxSockets == 2
MaxBroadcasts == 2

WebSockets == 1..MaxSockets
Broadcasts == 1..MaxBroadcasts

\* the user_id of the path a socket connects to: every third socket is of u2
UserOf(ws) == IF ws % 3 = 0 THEN "u2" ELSE "u1"

\* if user_id not in self._connections: self._connections[user_id] = []
\* self._connections[user_id].append(websocket)
connect(connections, lists, user_id, websocket) ==
    IF user_id \in DOMAIN connections
    THEN [connections |-> connections,
          lists |-> [lists EXCEPT ![connections[user_id]] = Append(@, websocket)]]
    ELSE [connections |-> DictMerge(connections, [u \in {user_id} |-> Len(lists) + 1]),
          lists |-> Append(lists, <<websocket>>)]

\* list.remove(x) for an x the list has: without its first occurrence
ListRemove(list, x) ==
    LET k == CHOOSE i \in DOMAIN list :
                 list[i] = x /\ \A j \in DOMAIN list : list[j] = x => i <= j
    IN  SubSeq(list, 1, k - 1) \o SubSeq(list, k + 1, Len(list))

\* ConnectionManager.disconnect: the registry after it, and whether list.remove
\* raised ValueError (the list does not have the socket)
disconnect(connections, lists, user_id, websocket) ==
    IF user_id \notin DOMAIN connections
    THEN [connections |-> connections, lists |-> lists, raised |-> FALSE]
    ELSE IF websocket \notin Range(lists[connections[user_id]])
    THEN [connections |-> connections, lists |-> lists, raised |-> TRUE]
    ELSE
        LET rest == ListRemove(lists[connections[user_id]], websocket)
        IN  [connections |->
                 IF rest = <<>>
                 THEN [u \in DOMAIN connections \ {user_id} |-> connections[u]]
                 ELSE connections,
             lists |-> [lists EXCEPT ![connections[user_id]] = rest],
             raised |-> FALSE]

\* for ws in stale: self.disconnect(user_id, ws), up to the first ValueError
RECURSIVE DisconnectStale(_, _, _, _)
DisconnectStale(connections, lists, user_id, stale) ==
    IF stale = <<>> THEN [connections |-> connections, lists |-> lists, raised |-> FALSE]
    ELSE
        LET r == disconnect(connections, lists, user_id, Head(stale))
        IN  IF r.raised THEN r
            ELSE DisconnectStale(r.connections, r.lists, user_id, Tail(stale))

IdleTask ==
    [pc |-> "idle", user_id |-> "", list |-> 0, i |-> 0, ws |-> 0, stale |-> <<>>,
     sent |-> {}, at_start |-> {}]

NotWs == <<easeVars, procVars, interpVars, videoVars, renderVars, fontVars, apiVars>>

InitWs ==
    /\ ws_connections = <<>>
    /\ ws_lists = <<>>
    /\ ws_sockets = [ws \in WebSockets |-> [pc |-> "new", open |-> TRUE]]
    /\ ws_tasks = [b \in Broadcasts |-> IdleTask]
    /\ EaseIdle /\ ProcIdle /\ InterpIdle /\ VideoIdle /\ RenderIdle /\ FontsIdle /\ ApiIdle

\* solar_system_ws calls ws_manager.connect: await websocket.accept()
ConnectAccept(ws) ==
    /\ ws_sockets[ws].pc = "new"
    /\ ws_sockets' = [ws_sockets EXCEPT ![ws].pc = "accepting"]
    /\ UNCHANGED <<ws_connections, ws_lists, ws_tasks, NotWs>>

\* connect after the accept: the socket is registered; await websocket.receive_text()
ConnectRegister(ws) ==
    /\ ws_sockets[ws].pc = "accepting"
    /\ LET r == connect(ws_connections, ws_lists, UserOf(ws), ws)
       IN  ws_connections' = r.connections /\ ws_lists' = r.lists
    /\ ws_sockets' = [ws_sockets EXCEPT ![ws].pc = "receiving"]
    /\ UNCHANGED <<ws_tasks, NotWs>>

\* the client closes the connection
ClientCloses(ws) ==
    /\ ws_sockets[ws].pc = "receiving"
    /\ ws_sockets[ws].open
    /\ ws_sockets' = [ws_sockets EXCEPT ![ws].open = FALSE]
    /\ UNCHANGED <<ws_connections, ws_lists, ws_tasks, NotWs>>

\* receive_text raises WebSocketDisconnect: ws_manager.disconnect(user_id, websocket)
HandlerDisconnect(ws) ==
    /\ ws_sockets[ws].pc = "receiving"
    /\ ~ws_sockets[ws].open
    /\ LET r == disconnect(ws_connections, ws_lists, UserOf(ws), ws)
       IN  /\ ws_connections' = r.connections
           /\ ws_lists' = r.lists
           /\ ws_sockets' = [ws_sockets EXCEPT
                                ![ws].pc = IF r.raised THEN "raised" ELSE "closed"]
    /\ UNCHANGED <<ws_tasks, NotWs>>

\* a handler calls broadcast_to_user: it returns when the user has no key, else it
\* starts the loop over the list of the key
BroadcastStart(b) ==
    /\ ws_tasks[b].pc = "idle"
    /\ \E user_id \in {"u1", "u2"} :
          ws_tasks' =
              [ws_tasks EXCEPT ![b] =
                  IF user_id \notin DOMAIN ws_connections
                  THEN [IdleTask EXCEPT !.pc = "done", !.user_id = user_id]
                  ELSE [IdleTask EXCEPT
                           !.pc = "loop", !.user_id = user_id,
                           !.list = ws_connections[user_id],
                           !.at_start = Range(ws_lists[ws_connections[user_id]])]]
    /\ UNCHANGED <<ws_connections, ws_lists, ws_sockets, NotWs>>

\* the loop takes the next socket of the list: await ws.send_text(message)
BroadcastNext(b) ==
    /\ ws_tasks[b].pc = "loop"
    /\ ws_tasks[b].i < Len(ws_lists[ws_tasks[b].list])
    /\ ws_tasks' = [ws_tasks EXCEPT ![b].pc = "sending",
                                    ![b].ws = ws_lists[ws_tasks[b].list][ws_tasks[b].i + 1],
                                    ![b].i = @ + 1]
    /\ UNCHANGED <<ws_connections, ws_lists, ws_sockets, NotWs>>

\* send_text returns, or raises because the connection is closed: stale.append(ws)
BroadcastSent(b) ==
    /\ ws_tasks[b].pc = "sending"
    /\ LET ws == ws_tasks[b].ws
       IN  ws_tasks' =
               IF ws_sockets[ws].open /\ ws_sockets[ws].pc = "receiving"
               THEN [ws_tasks EXCEPT ![b].pc = "loop", ![b].sent = @ \cup {ws}]
               ELSE [ws_tasks EXCEPT ![b].pc = "loop", ![b].stale = Append(@, ws)]
    /\ UNCHANGED <<ws_connections, ws_lists, ws_sockets, NotWs>>

\* the list is exhausted: for ws in stale: self.disconnect(user_id, ws)
BroadcastFinish(b) ==
    /\ ws_tasks[b].pc = "loop"
    /\ ws_tasks[b].i >= Len(ws_lists[ws_tasks[b].list])
    /\ LET r == DisconnectStale(ws_connections, ws_lists, ws_tasks[b].user_id,
                                ws_tasks[b].stale)
       IN  /\ ws_connections' = r.connections
           /\ ws_lists' = r.lists
           /\ ws_tasks' = [ws_tasks EXCEPT ![b].pc = IF r.raised THEN "raised" ELSE "done"]
    /\ UNCHANGED <<ws_sockets, NotWs>>

NextWs ==
    \/ \E ws \in WebSockets :
          \/ ConnectAccept(ws)
          \/ ConnectRegister(ws)
          \/ ClientCloses(ws)
          \/ HandlerDisconnect(ws)
    \/ \E b \in Broadcasts :
          \/ BroadcastStart(b)
          \/ BroadcastNext(b)
          \/ BroadcastSent(b)
          \/ BroadcastFinish(b)

SpecWs == InitWs /\ [][NextWs]_vars

\* the sockets the registry has under the user's key
Registered(user_id) ==
    IF user_id \in DOMAIN ws_connections THEN Range(ws_lists[ws_connections[user_id]])
    ELSE {}

\* C30: under any interleaving of connect, the socket handler's disconnect and
\* broadcast_to_user, disconnect never raises and the registry stays consistent:
\* no user key maps to an empty list, no socket is listed twice, a socket whose
\* handler has disconnected it is not listed, and every socket that was
\* registered when a broadcast started and is still registered when it ends has
\* been sent the message
C30_RegistryConsistent ==
    /\ \A ws \in WebSockets : ws_sockets[ws].pc # "raised"
    /\ \A b \in Broadcasts : ws_tasks[b].pc # "raised"
    /\ \A user_id \in DOMAIN ws_connections :
          LET list == ws_lists[ws_connections[user_id]]
          IN  /\ list # <<>>
              /\ \A i, j \in DOMAIN list : list[i] = list[j] => i = j
    /\ \A ws \in WebSockets :
          ws_sockets[ws].pc = "closed" => ws \notin Registered(UserOf(ws))
    /\ \A b \in Broadcasts :
          ws_tasks[b].pc = "done" =>
              \A ws \in ws_tasks[b].at_start :
                  ws \in Registered(ws_tasks[b].user_id) => ws \in ws_tasks[b].sent

====
